---- MODULE Spec2Model ----
(***************************************************************************)
(* Model of the search orchestration engine of db-price-hunter:           *)
(*   src/src/error-handler.js  withRetry, withDateRetry,                   *)
(*                             withProgressiveSearch, withTimeout          *)
(*   src/src/output-formatters.js  ParallelSearchProgress                  *)
(*   src/src/time-preferences.js, src/src/journey-search.js  the filters   *)
(*                             and the four search strategies              *)
(*   src/db-price-analyzer.js  searchOperation and the CLI's own           *)
(*                             searchFlexibleDurationTrips                 *)
(* Each async function is a small state machine whose steps are the        *)
(* stretches of code between two suspension points (await).  JavaScript    *)
(* runs one such stretch at a time, so every stretch is one atomic action. *)
(***************************************************************************)
EXTENDS Integers, Sequences, FiniteSets, TLC

(***************************************************************************)
(* Bounds of the model                                                     *)
(***************************************************************************)
MaxItems == 5
MaxConcurrency == 3
MaxAttemptsBound == 4

(***************************************************************************)
(* Program constants                                                       *)
(***************************************************************************)
DateMaxAttempts == 2
InterBatchDelayMs == 500

VARIABLES
    \* ---- withProgressiveSearch ------------------------------------------
    dates,           \* the submitted items, a sequence of date ids
    maxConcurrency,  \* the concurrency argument
    i,               \* loop index of the batch loop
    pc,              \* position of withProgressiveSearch
    results,         \* results array
    failures,        \* failures array
    completed,       \* completed counter
    itemState,       \* per date: position of its searchWithProgress call
    attempt,         \* per date: loop variable of its withDateRetry call
    returned,        \* the object returned by withProgressiveSearch
    \* ---- observation of the run (history) -------------------------------
    started,         \* per date: number of searchWithProgress calls
    calls,           \* per date: number of searchFunction invocations
    outcomes,        \* per date: outcome of each searchFunction call, in order
    batches,         \* the slices launched so far, in order
    delayLog,        \* the setTimeout delays awaited by the batch loop
    \* ---- progress reporting of withProgressiveSearch ---------------------
    useAnimation,    \* the useAnimation argument
    progressOut,     \* what the ParallelSearchProgress object wrote, in order
    callbackCalls,   \* the invocations of the progressCallback argument
    \* ---- withDateRetry called on its own ---------------------------------
    drMaxAttempts,   \* argument maxAttempts
    drBaseDelay,     \* argument baseDelay
    drAttempt,       \* loop variable attempt
    drPc,            \* position of withDateRetry
    drReturned,      \* <<>> or <<the returned value>>
    drOutcomes,      \* history: outcome of every operation() call, in order
    drWaits,         \* history: the setTimeout delays awaited, in order
    \* ---- withRetry -------------------------------------------------------
    wrMaxAttempts,   \* argument maxAttempts
    wrBaseDelay,     \* argument baseDelay
    wrContext,       \* argument context
    wrAttempt,       \* loop variable attempt
    wrLastError,     \* lastError: <<>> (null) or <<error>>
    wrPc,            \* position of withRetry
    wrReturned,      \* <<>> or <<the returned value>>
    wrThrown,        \* <<>> or <<the thrown value>>
    wrOutcomes,      \* history: outcome of every operation() call, in order
    wrWaits,         \* history: the setTimeout delays awaited, in order
    \* ---- withTimeout -----------------------------------------------------
    toTimeoutMs,     \* argument timeoutMs
    toContext,       \* argument context
    toPc,            \* position of the caller: start, awaiting, done
    toPromise,       \* state of the guarded promise
    toTimer,         \* unset, armed, fired
    toRace,          \* state of the promise returned by Promise.race
    toDelivered,     \* what the awaiting caller received: <<>> or <<outcome>>
    toEvents,        \* history: the settlement events, in order
    \* ---- timeMatchesPreference -------------------------------------------
    tpTimeMinutes,   \* argument timeMinutes
    tpPreference,    \* argument preference
    tpCustomTime,    \* argument customTime: <<>> (null) or <<string>>
    tpCustomTimeEnd, \* argument customTimeEnd: <<>> (null) or <<string>>
    tpPc,            \* idle, start, returned
    tpResult,        \* <<>> or <<the returned boolean>>
    \* ---- searchSameDayTrips: one call of searchSingleDate -----------------
    sdOutboundPreferences, \* timePreferences?.outbound: <<>> or <<prefs>>
    sdReturnPreferences,   \* timePreferences?.return: <<>> or <<prefs>>
    sdPc,            \* idle, start, outbound, return, returned, thrown
    sdValidOutbound, \* validOutbound
    sdReturnJourneys,\* history: returnResult.journeys as received
    sdValidReturn,   \* validReturn
    sdResult,        \* <<>> or <<the returned object>>
    sdError,         \* <<>> or <<the thrown error>>
    \* ---- searchSameDayTrips over withProgressiveSearch --------------------
    ssAttempts,      \* per date: one record per searchSingleDate call
    ssReturned,      \* <<>> or <<the list searchSameDayTrips returned>>
    \* ---- searchOneWayTrips: one call of searchSingleDate ------------------
    owPreferences,   \* timePreferences: <<>> or <<prefs>>
    owPc,            \* idle, start, morning, afternoon, returned, thrown
    owQueries,       \* history: the departure hours queried, in order
    owMorning,       \* morningResult.journeys as received
    owAfternoon,     \* afternoonResult.journeys as received
    owResult,        \* <<>> or <<the returned object>>
    owError,         \* <<>> or <<the thrown error>>
    \* ---- searchMultiDayTrips ----------------------------------------------
    mdPc,            \* idle, start, outbound, return, returned
    mdSearches,      \* history: the nested searches started, in order
    mdOutboundResults, \* outboundResults
    mdReturnResults, \* returnResults
    mdReturned,      \* <<>> or <<the returned list>>
    \* ---- searchFlexibleDurationTrips: one call of searchSingleDeparture ---
    fxZone,          \* the time zone of the host
    fxDepartureDate, \* departureDate: a Date, in hours since the epoch
    fxNumberOfDays,  \* numberOfDays
    fxPc,            \* idle, start, outbound, return, returned, thrown
    fxReturnDate,    \* returnDate: a Date, in hours since the epoch
    fxSearched,      \* history: the dates passed to searchOneWayTrips
    fxOutboundResults, \* outboundResults
    fxResult,        \* <<>> or <<the returned object>>
    fxError,         \* <<>> or <<the thrown error>>
    \* ---- searchOneWayTrips around its executor ---------------------------
    otSilent,        \* argument silent
    otIsNestedSearch,      \* argument isNestedSearch
    otUseTrainAnimations,  \* config.preferences.useTrainAnimations
    otConsole,       \* the lines searchOneWayTrips printed itself, in order
    otReturned,      \* <<>> or <<the returned list>>
    \* ---- db-price-analyzer.js: searchFlexibleDurationTrips ---------------
    isNestedSearch,        \* the module-level flag
    previousNestedState,   \* per date: the value saved by its running unit
    cfSilent,        \* argument silent
    cfFlagBefore,    \* history: isNestedSearch when the function was called
    cfReturned,      \* <<>> or <<the returned list>>
    \* ---- searchFlexibleDurationTrips with its nested one-way searches ----
    fdUnit,          \* per date: position of its searchSingleDeparture call
    fdQueriesInFlight  \* per date: client.journeys calls not yet settled

psVars == <<dates, maxConcurrency, i, pc, results, failures, completed,
            itemState, attempt, returned, started, calls, outcomes,
            batches, delayLog, useAnimation, progressOut, callbackCalls>>

drVars == <<drMaxAttempts, drBaseDelay, drAttempt, drPc, drReturned,
            drOutcomes, drWaits>>

wrVars == <<wrMaxAttempts, wrBaseDelay, wrContext, wrAttempt, wrLastError,
            wrPc, wrReturned, wrThrown, wrOutcomes, wrWaits>>

toVars == <<toTimeoutMs, toContext, toPc, toPromise, toTimer, toRace,
            toDelivered, toEvents>>

tpVars == <<tpTimeMinutes, tpPreference, tpCustomTime, tpCustomTimeEnd,
            tpPc, tpResult>>

\* the retry, timeout and batch machinery of error-handler.js
handlerVars == <<psVars, drVars, wrVars, toVars>>

\* the journey selection functions of time-preferences.js and
\* journey-search.js
sdVars == <<sdOutboundPreferences, sdReturnPreferences, sdPc,
            sdValidOutbound, sdReturnJourneys, sdValidReturn, sdResult,
            sdError>>

ssVars == <<ssAttempts, ssReturned>>

owVars == <<owPreferences, owPc, owQueries, owMorning, owAfternoon,
            owResult, owError>>

mdVars == <<mdPc, mdSearches, mdOutboundResults, mdReturnResults,
            mdReturned>>

fxVars == <<fxZone, fxDepartureDate, fxNumberOfDays, fxPc, fxReturnDate,
            fxSearched, fxOutboundResults, fxResult, fxError>>

searchVars == <<tpVars, sdVars, ssVars, owVars, mdVars, fxVars>>

otVars == <<otSilent, otIsNestedSearch, otUseTrainAnimations, otConsole,
            otReturned>>

cfVars == <<isNestedSearch, previousNestedState, cfSilent, cfFlagBefore,
            cfReturned>>

fdVars == <<fdUnit, fdQueriesInFlight>>

strategyVars == <<otVars, cfVars, fdVars>>

vars == <<handlerVars, searchVars, strategyVars>>

othersThanPS == <<drVars, wrVars, toVars, searchVars, strategyVars>>
othersThanDR == <<psVars, wrVars, toVars, searchVars, strategyVars>>
othersThanWR == <<psVars, drVars, toVars, searchVars, strategyVars>>
othersThanTO == <<psVars, drVars, wrVars, searchVars, strategyVars>>
othersThanTP == <<handlerVars, sdVars, ssVars, owVars, mdVars, fxVars,
                  strategyVars>>
othersThanSD == <<handlerVars, tpVars, ssVars, owVars, mdVars, fxVars,
                  strategyVars>>
othersThanSS == <<handlerVars, tpVars, sdVars, owVars, mdVars, fxVars,
                  strategyVars>>
othersThanOW == <<handlerVars, tpVars, sdVars, ssVars, mdVars, fxVars,
                  strategyVars>>
othersThanMD == <<handlerVars, tpVars, sdVars, ssVars, owVars, fxVars,
                  strategyVars>>
othersThanFX == <<handlerVars, tpVars, sdVars, ssVars, owVars, mdVars,
                  strategyVars>>
othersThanOT == <<drVars, wrVars, toVars, searchVars, cfVars, fdVars>>
othersThanCF == <<drVars, wrVars, toVars, searchVars, otVars, fdVars>>
othersThanFD == <<drVars, wrVars, toVars, searchVars, otVars, cfVars>>

Min(a, b) == IF a < b THEN a ELSE b

Range(s) == {s[x] : x \in 1..Len(s)}

\* null, the failure sentinel of withDateRetry
Null == <<"null", 0>>

\* value of `returned` while withProgressiveSearch has not returned
NoReturn == [results |-> <<>>, failures |-> <<>>,
             successCount |-> -1, failureCount |-> -1]

\* Array.prototype.slice(from, to) with 0-based, end-exclusive indices
ArraySlice(arr, from, to) ==
    IF from >= Len(arr) THEN <<>>
    ELSE SubSeq(arr, from + 1, Min(to, Len(arr)))

\* the value a successful searchFunction(date) resolves to
ResultOf(date) == <<"result", date>>

(***************************************************************************)
(* withDateRetry (error-handler.js 103-125)                                *)
(***************************************************************************)
\* variant: the test is off by one, a third attempt is made
DateRetryExhausted_OffByOne(att, maxAttempts) == att = maxAttempts + 1

\* line 112: if (attempt === maxAttempts)
DateRetryExhausted(att, maxAttempts) == att = maxAttempts

\* variant: the delay doubles with every attempt
DateRetryDelay_Exponential(baseDelay, att) == baseDelay * 2^(att - 1)

\* line 117: const delay = baseDelay
DateRetryDelay(baseDelay, att) == baseDelay

(***************************************************************************)
(* withProgressiveSearch (error-handler.js 128-198)                        *)
(***************************************************************************)
\* variant: the slice is one item too long
BatchSlice_Wide(idx) == ArraySlice(dates, idx, idx + maxConcurrency + 1)

\* line 172: const batch = dates.slice(i, i + maxConcurrency)
BatchSlice(idx) == ArraySlice(dates, idx, idx + maxConcurrency)

\* variant: the loop index advances by one
NextIndex_ByOne(idx) == idx + 1

\* line 171: i += maxConcurrency
NextIndex(idx) == idx + maxConcurrency

\* variant: the delay is also taken after the last batch
NeedsInterBatchDelay_Always(idx) == idx + maxConcurrency <= Len(dates)

\* line 184: if (i + maxConcurrency < dates.length)
NeedsInterBatchDelay(idx) == idx + maxConcurrency < Len(dates)

\* variant: the barrier only lets a batch of successful dates through
BatchSettled_OnlySuccesses(batch) ==
    \A d \in Range(batch) :
        itemState[d] = "settled" /\ outcomes[d][Len(outcomes[d])] = "value"

\* variant: the barrier does not wait for dates that are in their retry delay
BatchSettled_IgnoresRetry(batch) ==
    \A d \in Range(batch) : itemState[d] \in {"settled", "retryDelay"}

\* line 181: await Promise.all(batchPromises) resumes when every promise of
\* the batch has been fulfilled
BatchSettled(batch) == \A d \in Range(batch) : itemState[d] = "settled"

\* variant: a failed date discards the results collected so far
ResultsAfter_DropsOnFailure(res, date, result) ==
    IF result # Null THEN Append(res, result) ELSE <<>>

\* variant: the result is inserted at its place in submission order
ResultsAfter_BySubmission(res, date, result) ==
    LET Before(r) == r[2] < date
        After(r) == r[2] > date
    IN IF result # Null
       THEN SelectSeq(res, Before) \o <<result>> \o SelectSeq(res, After)
       ELSE res

\* lines 154-156: a truthy result is pushed to results
ResultsAfter(res, date, result) ==
    IF result # Null THEN Append(res, result) ELSE res

\* variant: the date is pushed to failures whatever the result
FailuresAfter_Always(fail, date, result) == Append(fail, date)

\* lines 157-159: anything else makes the date a failure
FailuresAfter(fail, date, result) ==
    IF result # Null THEN fail ELSE Append(fail, date)

(***************************************************************************)
(* ParallelSearchProgress (output-formatters.js 403-478): every call that  *)
(* writes to the terminal is one entry of progressOut.  With useAnimation  *)
(* the text goes to process.stdout.write, without it to console.log.       *)
(***************************************************************************)
SearchingMessage == [text |-> "Searching dates...", number |-> 0, of |-> 0]

\* lines 173-176: `Batch ${batchNumber}/${totalBatches}`
BatchMessage(index) ==
    [text |-> "Batch",
     number |-> (index \div maxConcurrency) + 1,
     of |-> (Len(dates) + maxConcurrency - 1) \div maxConcurrency]

\* start(): the first display of the animation, or the "Starting parallel
\* search for N dates (concurrency: K)" line
ProgressStart ==
    [call |-> "start", animated |-> useAnimation,
     message |-> [text |-> "Starting", number |-> Len(dates),
                  of |-> maxConcurrency],
     completedDates |-> 0, failed |-> 0]

\* updateProgress(message, completed): stores both and writes the display
\* or the message
UpdateProgress(message, done) ==
    [call |-> "updateProgress", animated |-> useAnimation,
     message |-> message, completedDates |-> done, failed |-> 0]

\* stop(successCount, failureCount): always prints the completion summary
ProgressStop(successCount, failureCount) ==
    [call |-> "stop", animated |-> useAnimation,
     message |-> [text |-> IF failureCount > 0 THEN "Completed search"
                           ELSE "Completed all", number |-> 0, of |-> 0],
     completedDates |-> successCount, failed |-> failureCount]

\* lines 135-139: progress.start() runs in the same stretch as the first
\* pass through the loop header, after the dynamic import has resolved
ProgressSoFar ==
    IF batches = <<>> THEN Append(progressOut, ProgressStart) ELSE progressOut

\* the state on entry of withProgressiveSearch(dates, ..., maxConcurrency)
\* with n dates and maxConcurrency = k (lines 129-132)
PSInitWith(n, k, animation) ==
    /\ dates = [x \in 1..n |-> x]
    /\ maxConcurrency = k
    /\ useAnimation = animation
    /\ progressOut = <<>>
    /\ callbackCalls = <<>>
    /\ i = 0
    /\ pc = "loop"
    /\ results = <<>>
    /\ failures = <<>>
    /\ completed = 0
    /\ itemState = [d \in Range(dates) |-> "idle"]
    /\ attempt = [d \in Range(dates) |-> 0]
    /\ returned = NoReturn
    /\ started = [d \in Range(dates) |-> 0]
    /\ calls = [d \in Range(dates) |-> 0]
    /\ outcomes = [d \in Range(dates) |-> <<>>]
    /\ batches = <<>>
    /\ delayLog = <<>>

\* line 128: useAnimation defaults to true
PSInitOf(n, k) == PSInitWith(n, k, TRUE)

\* lines 171-181: one iteration of the batch loop up to the await:
\* batch.map(date => searchWithProgress(date)) runs every searchWithProgress
\* of the slice synchronously up to its first await, i.e. into attempt 1 of
\* withDateRetry and into searchFunction(date).
StartBatchStep ==
    /\ pc = "loop"
    /\ i < Len(dates)
    /\ LET batch == BatchSlice(i) IN
        /\ batches' = Append(batches, batch)
        /\ itemState' = [d \in DOMAIN itemState |->
                            IF d \in Range(batch) THEN "running" ELSE itemState[d]]
        /\ attempt' = [d \in DOMAIN attempt |->
                            IF d \in Range(batch) THEN 1 ELSE attempt[d]]
        /\ started' = [d \in DOMAIN started |->
                            IF d \in Range(batch) THEN started[d] + 1 ELSE started[d]]
        /\ calls' = [d \in DOMAIN calls |->
                            IF d \in Range(batch) THEN calls[d] + 1 ELSE calls[d]]
    /\ progressOut' = Append(ProgressSoFar,
                              UpdateProgress(BatchMessage(i), completed))
    /\ pc' = "await"
    /\ UNCHANGED <<dates, maxConcurrency, i, results, failures, completed,
                   returned, outcomes, delayLog, useAnimation, callbackCalls>>

\* StartBatch of a run in which nothing else is going on
StartBatch ==
    /\ StartBatchStep
    /\ UNCHANGED othersThanPS

\* lines 108, 151-160: searchFunction(date) resolves with `result`;
\* withDateRetry returns it and searchWithProgress records it.
\* searchFunction may resolve with a value or with nothing (null).
Settle(d, result) ==
    /\ completed' = completed + 1
    /\ results' = ResultsAfter(results, d, result)
    /\ failures' = FailuresAfter(failures, d, result)
    /\ itemState' = [itemState EXCEPT ![d] = "settled"]
    /\ progressOut' = Append(progressOut,
                              UpdateProgress(SearchingMessage, completed + 1))

AttemptResolvesStep(d) ==
    /\ d \in DOMAIN itemState
    /\ itemState[d] = "running"
    /\ \E result \in {ResultOf(d), Null} :
        /\ Settle(d, result)
        /\ outcomes' = [outcomes EXCEPT ![d] =
                Append(@, IF result = Null THEN "null" ELSE "value")]
    /\ UNCHANGED <<dates, maxConcurrency, i, pc, attempt, returned, started,
                   calls, batches, delayLog, useAnimation, callbackCalls>>

\* AttemptResolves of a run in which nothing else is going on
AttemptResolves(d) ==
    /\ AttemptResolvesStep(d)
    /\ UNCHANGED othersThanPS

\* lines 109-120: searchFunction(date) rejects.  On the last attempt
\* withDateRetry returns null (and searchWithProgress records a failure),
\* otherwise it starts the retry delay.
AttemptThrowsStep(d) ==
    /\ d \in DOMAIN itemState
    /\ itemState[d] = "running"
    /\ outcomes' = [outcomes EXCEPT ![d] = Append(@, "throw")]
    /\ IF DateRetryExhausted(attempt[d], DateMaxAttempts)
       THEN Settle(d, Null)
       ELSE /\ itemState' = [itemState EXCEPT ![d] = "retryDelay"]
            /\ UNCHANGED <<completed, results, failures, progressOut>>
    /\ UNCHANGED <<dates, maxConcurrency, i, pc, attempt, returned, started,
                   calls, batches, delayLog, useAnimation, callbackCalls>>

\* AttemptThrows of a run in which nothing else is going on
AttemptThrows(d) ==
    /\ AttemptThrowsStep(d)
    /\ UNCHANGED othersThanPS

\* lines 120, 106-108: the retry delay elapses, the loop increments attempt
\* and calls operation() again
RetryDelayElapsesStep(d) ==
    /\ d \in DOMAIN itemState
    /\ itemState[d] = "retryDelay"
    /\ attempt' = [attempt EXCEPT ![d] = attempt[d] + 1]
    /\ calls' = [calls EXCEPT ![d] = calls[d] + 1]
    /\ itemState' = [itemState EXCEPT ![d] = "running"]
    /\ UNCHANGED <<dates, maxConcurrency, i, pc, results, failures, completed,
                   returned, started, outcomes, batches, delayLog,
                   useAnimation, progressOut, callbackCalls>>

\* RetryDelayElapses of a run in which nothing else is going on
RetryDelayElapses(d) ==
    /\ RetryDelayElapsesStep(d)
    /\ UNCHANGED othersThanPS

\* lines 181-186: Promise.all resolves; either the inter-batch delay is
\* started or the loop goes straight to i += maxConcurrency
BatchCompletes ==
    /\ pc = "await"
    /\ BatchSettled(BatchSlice(i))
    /\ IF NeedsInterBatchDelay(i)
       THEN /\ pc' = "delay"
            /\ delayLog' = Append(delayLog, [ms |-> InterBatchDelayMs,
                                             afterBatch |-> Len(batches)])
            /\ i' = i
       ELSE /\ pc' = "loop"
            /\ i' = NextIndex(i)
            /\ UNCHANGED delayLog
    /\ UNCHANGED <<dates, maxConcurrency, results, failures, completed,
                   itemState, attempt, returned, started, calls, outcomes,
                   batches, useAnimation, progressOut, callbackCalls>>
    /\ UNCHANGED othersThanPS

\* line 185, 171: the inter-batch delay elapses, i += maxConcurrency
InterBatchDelayElapses ==
    /\ pc = "delay"
    /\ pc' = "loop"
    /\ i' = NextIndex(i)
    /\ UNCHANGED <<dates, maxConcurrency, results, failures, completed,
                   itemState, attempt, returned, started, calls, outcomes,
                   batches, delayLog, useAnimation, progressOut,
                   callbackCalls>>
    /\ UNCHANGED othersThanPS

\* lines 171, 190-197: the loop condition fails and the outcome is returned
ReturnOutcome ==
    /\ pc = "loop"
    /\ ~(i < Len(dates))
    /\ pc' = "done"
    /\ returned' = [results |-> results, failures |-> failures,
                    successCount |-> Len(results),
                    failureCount |-> Len(failures)]
    /\ progressOut' = Append(ProgressSoFar,
                              ProgressStop(Len(results), Len(failures)))
    /\ UNCHANGED <<dates, maxConcurrency, i, results, failures, completed,
                   itemState, attempt, started, calls, outcomes, batches,
                   delayLog, useAnimation, callbackCalls>>
    /\ UNCHANGED othersThanPS

(***************************************************************************)
(* Values and errors                                                       *)
(***************************************************************************)
\* what operation() can resolve to
OpValues == {ResultOf(1), ResultOf(2), Null}

\* the messages of the errors operation() can reject with
ErrorMessages == {"ECONNRESET", "No journeys found"}

\* new Error(m)
PlainError(m) == [name |-> "Error", message |-> <<m>>, cause |-> <<>>]

OpErrors == {PlainError(m) : m \in ErrorMessages}

\* error-handler.js 12-18: class NetworkError; cause is <<>> for null
NetworkError(message, cause) ==
    [name |-> "NetworkError", message |-> message, cause |-> cause]

\* the value null when it is thrown: it has no name, message or cause
ThrownNull == [name |-> "null", message |-> <<>>, cause |-> <<>>]

\* outcome of one operation() call
Resolved(v) == [ok |-> TRUE, value |-> <<v>>, error |-> <<>>]
Rejected(e) == [ok |-> FALSE, value |-> <<>>, error |-> <<e>>]

BaseDelays == {1000, 2000}
Contexts == {"Same-day trip search", "One-way trip search"}
Timeouts == {30000, 300000}

(***************************************************************************)
(* withDateRetry called on its own (error-handler.js 103-125)              *)
(***************************************************************************)
DRInitOf(maxAttempts, baseDelay) ==
    /\ drMaxAttempts = maxAttempts
    /\ drBaseDelay = baseDelay
    /\ drAttempt = 0
    /\ drPc = "start"
    /\ drReturned = <<>>
    /\ drOutcomes = <<>>
    /\ drWaits = <<>>

\* lines 104-108: entry, attempt = 1, the loop test and the first operation()
\* line 124: return null when the loop body never runs
DRCall ==
    /\ drPc = "start"
    /\ drAttempt' = 1
    /\ IF 1 <= drMaxAttempts
       THEN drPc' = "operation" /\ UNCHANGED drReturned
       ELSE drPc' = "returned" /\ drReturned' = <<Null>>
    /\ UNCHANGED <<drMaxAttempts, drBaseDelay, drOutcomes, drWaits>>
    /\ UNCHANGED othersThanDR

\* line 108: return await operation()
DROperationResolves(v) ==
    /\ drPc = "operation"
    /\ drOutcomes' = Append(drOutcomes, Resolved(v))
    /\ drReturned' = <<v>>
    /\ drPc' = "returned"
    /\ UNCHANGED <<drMaxAttempts, drBaseDelay, drAttempt, drWaits>>
    /\ UNCHANGED othersThanDR

\* lines 109-120: catch: return null on the last attempt, else start the delay
DROperationRejects(e) ==
    /\ drPc = "operation"
    /\ drOutcomes' = Append(drOutcomes, Rejected(e))
    /\ IF DateRetryExhausted(drAttempt, drMaxAttempts)
       THEN /\ drReturned' = <<Null>>
            /\ drPc' = "returned"
            /\ UNCHANGED drWaits
       ELSE /\ drWaits' = Append(drWaits, DateRetryDelay(drBaseDelay, drAttempt))
            /\ drPc' = "delay"
            /\ UNCHANGED drReturned
    /\ UNCHANGED <<drMaxAttempts, drBaseDelay, drAttempt>>
    /\ UNCHANGED othersThanDR

\* lines 120, 106-108, 124: the delay elapses, attempt++, loop test
DRDelayElapses ==
    /\ drPc = "delay"
    /\ drAttempt' = drAttempt + 1
    /\ IF drAttempt + 1 <= drMaxAttempts
       THEN drPc' = "operation" /\ UNCHANGED drReturned
       ELSE drPc' = "returned" /\ drReturned' = <<Null>>
    /\ UNCHANGED <<drMaxAttempts, drBaseDelay, drOutcomes, drWaits>>
    /\ UNCHANGED othersThanDR

(***************************************************************************)
(* withRetry (error-handler.js 74-100)                                     *)
(***************************************************************************)
\* line 83: if (attempt === maxAttempts)
RetryExhausted(att, maxAttempts) == att = maxAttempts

\* variant: the exponent is the attempt number itself
BackoffDelay_ExponentOff(baseDelay, att) == baseDelay * 2^att

\* line 91: const delay = baseDelay * Math.pow(2, attempt - 1)
BackoffDelay(baseDelay, att) == baseDelay * 2^(att - 1)

\* line 85: `${context} failed after ${maxAttempts} attempts: ${error.message}`
FailedMessage(context, maxAttempts, error) ==
    <<context, " failed after ", ToString(maxAttempts), " attempts: ">>
        \o error.message

\* lines 84-87: new NetworkError(message, error)
ExhaustedError(context, maxAttempts, error) ==
    NetworkError(FailedMessage(context, maxAttempts, error), <<error>>)

\* line 99: throw lastError
ThrowLastError(lastError) ==
    IF lastError = <<>> THEN <<ThrownNull>> ELSE lastError

WRInitOf(maxAttempts, baseDelay, context) ==
    /\ wrMaxAttempts = maxAttempts
    /\ wrBaseDelay = baseDelay
    /\ wrContext = context
    /\ wrAttempt = 0
    /\ wrLastError = <<>>
    /\ wrPc = "start"
    /\ wrReturned = <<>>
    /\ wrThrown = <<>>
    /\ wrOutcomes = <<>>
    /\ wrWaits = <<>>

\* lines 75-79: entry, attempt = 1, the loop test and the first operation()
\* line 99: throw lastError when the loop body never runs
WRCall ==
    /\ wrPc = "start"
    /\ wrAttempt' = 1
    /\ IF 1 <= wrMaxAttempts
       THEN wrPc' = "operation" /\ UNCHANGED wrThrown
       ELSE wrPc' = "thrown" /\ wrThrown' = ThrowLastError(wrLastError)
    /\ UNCHANGED <<wrMaxAttempts, wrBaseDelay, wrContext, wrLastError,
                   wrReturned, wrOutcomes, wrWaits>>
    /\ UNCHANGED othersThanWR

\* line 79: return await operation()
WROperationResolves(v) ==
    /\ wrPc = "operation"
    /\ wrOutcomes' = Append(wrOutcomes, Resolved(v))
    /\ wrReturned' = <<v>>
    /\ wrPc' = "returned"
    /\ UNCHANGED <<wrMaxAttempts, wrBaseDelay, wrContext, wrAttempt,
                   wrLastError, wrThrown, wrWaits>>
    /\ UNCHANGED othersThanWR

\* lines 80-95: catch: throw the NetworkError on the last attempt, else start
\* the backoff delay
WROperationRejects(e) ==
    /\ wrPc = "operation"
    /\ wrOutcomes' = Append(wrOutcomes, Rejected(e))
    /\ wrLastError' = <<e>>
    /\ IF RetryExhausted(wrAttempt, wrMaxAttempts)
       THEN /\ wrThrown' = <<ExhaustedError(wrContext, wrMaxAttempts, e)>>
            /\ wrPc' = "thrown"
            /\ UNCHANGED wrWaits
       ELSE /\ wrWaits' = Append(wrWaits, BackoffDelay(wrBaseDelay, wrAttempt))
            /\ wrPc' = "delay"
            /\ UNCHANGED wrThrown
    /\ UNCHANGED <<wrMaxAttempts, wrBaseDelay, wrContext, wrAttempt,
                   wrReturned>>
    /\ UNCHANGED othersThanWR

\* lines 95, 77-79, 99: the delay elapses, attempt++, loop test
WRDelayElapses ==
    /\ wrPc = "delay"
    /\ wrAttempt' = wrAttempt + 1
    /\ IF wrAttempt + 1 <= wrMaxAttempts
       THEN wrPc' = "operation" /\ UNCHANGED wrThrown
       ELSE wrPc' = "thrown" /\ wrThrown' = ThrowLastError(wrLastError)
    /\ UNCHANGED <<wrMaxAttempts, wrBaseDelay, wrContext, wrLastError,
                   wrReturned, wrOutcomes, wrWaits>>
    /\ UNCHANGED othersThanWR

(***************************************************************************)
(* withTimeout (error-handler.js 201-210)                                  *)
(***************************************************************************)
PromisePending == [state |-> "pending", value |-> <<>>, reason |-> <<>>]
PromiseFulfilled(v) == [state |-> "fulfilled", value |-> <<v>>, reason |-> <<>>]
PromiseRejected(e) == [state |-> "rejected", value |-> <<>>, reason |-> <<e>>]

\* line 206: new NetworkError(`${context} timed out after ${timeoutMs}ms`)
TimeoutError(context, timeoutMs) ==
    NetworkError(<<context, " timed out after ", ToString(timeoutMs), "ms">>,
                 <<>>)

\* variant: a later settlement replaces the outcome
RaceSettle_Overwrites(race, outcome) == outcome

\* line 202: Promise.race: the returned promise takes the outcome of the
\* first input promise that settles; settling a settled promise does nothing
RaceSettle(race, outcome) ==
    IF race.state = "pending" THEN outcome ELSE race

TOInitOf(timeoutMs, context) ==
    /\ toTimeoutMs = timeoutMs
    /\ toContext = context
    /\ toPc = "start"
    /\ toPromise = PromisePending
    /\ toTimer = "unset"
    /\ toRace = PromisePending
    /\ toDelivered = <<>>
    /\ toEvents = <<>>

\* lines 202-208: the call itself: the timer is armed and the race is set up;
\* a guarded promise that is already settled settles the race before any
\* timer callback can run
TOCall ==
    /\ toPc = "start"
    /\ toPc' = "awaiting"
    /\ toTimer' = "armed"
    /\ toRace' = RaceSettle(toRace, toPromise)
    /\ UNCHANGED <<toTimeoutMs, toContext, toPromise, toDelivered, toEvents>>
    /\ UNCHANGED othersThanTO

\* line 203: the guarded promise is fulfilled (before or after the call)
TOPromiseFulfills(v) ==
    /\ toPromise.state = "pending"
    /\ toPromise' = PromiseFulfilled(v)
    /\ toEvents' = Append(toEvents, "operation")
    /\ toRace' = IF toPc = "start" THEN toRace
                 ELSE RaceSettle(toRace, PromiseFulfilled(v))
    /\ UNCHANGED <<toTimeoutMs, toContext, toPc, toTimer, toDelivered>>
    /\ UNCHANGED othersThanTO

\* line 203: the guarded promise is rejected (before or after the call)
TOPromiseRejects(e) ==
    /\ toPromise.state = "pending"
    /\ toPromise' = PromiseRejected(e)
    /\ toEvents' = Append(toEvents, "operation")
    /\ toRace' = IF toPc = "start" THEN toRace
                 ELSE RaceSettle(toRace, PromiseRejected(e))
    /\ UNCHANGED <<toTimeoutMs, toContext, toPc, toTimer, toDelivered>>
    /\ UNCHANGED othersThanTO

\* lines 205-207: the setTimeout callback runs and rejects the timer promise
TOTimerFires ==
    /\ toTimer = "armed"
    /\ toTimer' = "fired"
    /\ toEvents' = Append(toEvents, "timer")
    /\ toRace' = RaceSettle(toRace,
                     PromiseRejected(TimeoutError(toContext, toTimeoutMs)))
    /\ UNCHANGED <<toTimeoutMs, toContext, toPc, toPromise, toDelivered>>
    /\ UNCHANGED othersThanTO

\* the caller awaiting the returned promise resumes with its outcome
TODeliver ==
    /\ toPc = "awaiting"
    /\ toRace.state # "pending"
    /\ toDelivered' = Append(toDelivered, toRace)
    /\ toPc' = "done"
    /\ UNCHANGED <<toTimeoutMs, toContext, toPromise, toTimer, toRace,
                   toEvents>>
    /\ UNCHANGED othersThanTO

(***************************************************************************)
(* Specifications                                                          *)
(***************************************************************************)
PSIdle == PSInitOf(0, 1)
DRIdle == DRInitOf(0, 0)
WRIdle == WRInitOf(0, 0, "")
TOIdle == TOInitOf(0, "")
TPIdle ==
    /\ tpTimeMinutes = 0
    /\ tpPreference = "any"
    /\ tpCustomTime = <<>>
    /\ tpCustomTimeEnd = <<>>
    /\ tpPc = "idle"
    /\ tpResult = <<>>

HandlersIdle == PSIdle /\ DRIdle /\ WRIdle /\ TOIdle

SDIdle ==
    /\ sdOutboundPreferences = <<>>
    /\ sdReturnPreferences = <<>>
    /\ sdPc = "idle"
    /\ sdValidOutbound = <<>>
    /\ sdReturnJourneys = <<>>
    /\ sdValidReturn = <<>>
    /\ sdResult = <<>>
    /\ sdError = <<>>

SSIdle ==
    /\ ssAttempts = <<>>
    /\ ssReturned = <<>>

OWIdle ==
    /\ owPreferences = <<>>
    /\ owPc = "idle"
    /\ owQueries = <<>>
    /\ owMorning = <<>>
    /\ owAfternoon = <<>>
    /\ owResult = <<>>
    /\ owError = <<>>

MDIdle ==
    /\ mdPc = "idle"
    /\ mdSearches = <<>>
    /\ mdOutboundResults = <<>>
    /\ mdReturnResults = <<>>
    /\ mdReturned = <<>>

FXIdle ==
    /\ fxZone = "UTC"
    /\ fxDepartureDate = 0
    /\ fxNumberOfDays = 0
    /\ fxPc = "idle"
    /\ fxReturnDate = 0
    /\ fxSearched = <<>>
    /\ fxOutboundResults = <<>>
    /\ fxResult = <<>>
    /\ fxError = <<>>

SearchIdle == TPIdle /\ SDIdle /\ SSIdle /\ OWIdle /\ MDIdle /\ FXIdle

OTIdle ==
    /\ otSilent = FALSE
    /\ otIsNestedSearch = FALSE
    /\ otUseTrainAnimations = FALSE
    /\ otConsole = <<>>
    /\ otReturned = <<>>

CFIdle ==
    /\ isNestedSearch = FALSE
    /\ previousNestedState = <<>>
    /\ cfSilent = FALSE
    /\ cfFlagBefore = FALSE
    /\ cfReturned = <<>>

FDIdle ==
    /\ fdUnit = <<>>
    /\ fdQueriesInFlight = <<>>

StrategiesIdle == OTIdle /\ CFIdle /\ FDIdle

\* withProgressiveSearch on 0..MaxItems dates with concurrency 1..MaxConcurrency
Init ==
    /\ \E n \in 0..MaxItems, k \in 1..MaxConcurrency : PSInitOf(n, k)
    /\ DRIdle /\ WRIdle /\ TOIdle /\ SearchIdle /\ StrategiesIdle

Next ==
    \/ StartBatch
    \/ \E d \in 1..MaxItems : AttemptResolves(d)
    \/ \E d \in 1..MaxItems : AttemptThrows(d)
    \/ \E d \in 1..MaxItems : RetryDelayElapses(d)
    \/ BatchCompletes
    \/ InterBatchDelayElapses
    \/ ReturnOutcome

Spec == Init /\ [][Next]_vars

\* withDateRetry with maxAttempts 0..MaxAttemptsBound
InitDateRetry ==
    /\ \E m \in 0..MaxAttemptsBound, b \in BaseDelays : DRInitOf(m, b)
    /\ PSIdle /\ WRIdle /\ TOIdle /\ SearchIdle /\ StrategiesIdle

NextDateRetry ==
    \/ DRCall
    \/ \E v \in OpValues : DROperationResolves(v)
    \/ \E e \in OpErrors : DROperationRejects(e)
    \/ DRDelayElapses

SpecDateRetry == InitDateRetry /\ [][NextDateRetry]_vars

\* withRetry with maxAttempts 0..MaxAttemptsBound
InitRetry ==
    /\ \E m \in 0..MaxAttemptsBound, b \in BaseDelays, c \in Contexts :
          WRInitOf(m, b, c)
    /\ PSIdle /\ DRIdle /\ TOIdle /\ SearchIdle /\ StrategiesIdle

NextRetry ==
    \/ WRCall
    \/ \E v \in OpValues : WROperationResolves(v)
    \/ \E e \in OpErrors : WROperationRejects(e)
    \/ WRDelayElapses

SpecRetry == InitRetry /\ [][NextRetry]_vars

\* withTimeout
InitTimeout ==
    /\ \E t \in Timeouts, c \in Contexts : TOInitOf(t, c)
    /\ PSIdle /\ DRIdle /\ WRIdle /\ SearchIdle /\ StrategiesIdle

NextTimeout ==
    \/ TOCall
    \/ \E v \in OpValues : TOPromiseFulfills(v)
    \/ \E e \in OpErrors : TOPromiseRejects(e)
    \/ TOTimerFires
    \/ TODeliver

SpecTimeout == InitTimeout /\ [][NextTimeout]_vars

(***************************************************************************)
(* Properties of withProgressiveSearch                                     *)
(***************************************************************************)
Items == Range(dates)

\* dates whose searchWithProgress call has started and has not settled
InFlight == {d \in Items : itemState[d] \in {"running", "retryDelay"}}

\* number of slices of size maxConcurrency that cover the dates
NumBatches == (Len(dates) + maxConcurrency - 1) \div maxConcurrency

\* the j-th consecutive slice of size maxConcurrency, in submission order
ExpectedSlice(j) ==
    [x \in 1..Min(maxConcurrency, Len(dates) - (j - 1) * maxConcurrency)
        |-> (j - 1) * maxConcurrency + x]

\* the slice the d-th date belongs to
SliceOf(d) == ((d - 1) \div maxConcurrency) + 1

Occurrences(seq, x) == Cardinality({j \in 1..Len(seq) : seq[j] = x})

Last(seq) == seq[Len(seq)]

\* C1: at every moment the number of dates whose worker call has started and
\* has not yet settled, retry delays included, is at most the concurrency.
C1_ConcurrencyBound == Cardinality(InFlight) <= maxConcurrency

C1_Witness ==
    /\ maxConcurrency >= 2
    /\ Cardinality(InFlight) = maxConcurrency
    /\ Len(batches) >= 2
    /\ \E d \in Items : itemState[d] = "retryDelay"

\* C2 as stated: searchFunction is invoked exactly once per date.
C2_WorkerInvokedOnce ==
    \A d \in Items : calls[d] <= 1 /\ (pc = "done" => calls[d] = 1)

\* C2 amended: every date is handed to searchWithProgress exactly once and
\* none is skipped; searchFunction is invoked for it once, and a second and
\* last time exactly when the first invocation threw.
C2_WorkerInvokedOncePerAttempt ==
    \A d \in Items :
        /\ started[d] <= 1
        /\ calls[d] <= DateMaxAttempts
        /\ calls[d] = Len(outcomes[d]) + (IF itemState[d] = "running" THEN 1 ELSE 0)
        /\ \A a \in 1..(calls[d] - 1) : outcomes[d][a] = "throw"
        /\ (itemState[d] = "settled" /\ outcomes[d][1] = "throw") => calls[d] = 2
        /\ pc = "done" => (started[d] = 1 /\ calls[d] >= 1)

C2_Witness ==
    /\ pc = "done"
    /\ \E d, e \in Items : calls[d] = 2 /\ calls[e] = 1

\* C3: the batches are the consecutive slices of size maxConcurrency in
\* submission order (5 dates, concurrency 2: [1,2],[3,4],[5]) and no date of
\* a later slice is started before every date of an earlier slice has
\* settled, retry delays included.
C3_BatchesInOrder ==
    /\ Len(batches) <= NumBatches
    /\ \A j \in 1..Len(batches) : batches[j] = ExpectedSlice(j)
    /\ pc = "done" => Len(batches) = NumBatches
    /\ (pc = "done" /\ Len(dates) = 5 /\ maxConcurrency = 2)
          => batches = << <<1, 2>>, <<3, 4>>, <<5>> >>
    /\ \A d, e \in Items :
          (SliceOf(d) < SliceOf(e) /\ itemState[e] # "idle")
              => itemState[d] = "settled"

C3_Witness ==
    /\ batches = << <<1, 2>>, <<3, 4>>, <<5>> >>
    /\ calls[2] = 2
    /\ itemState[5] = "running"

\* C4: the 500 ms inter-batch delay is taken exactly once after every batch
\* but the last and never after the last one: b >= 1 batches give b - 1
\* delays, and batch j + 1 starts only after the delay that follows batch j.
C4_InterBatchDelays ==
    /\ \A j \in 1..Len(delayLog) :
          delayLog[j] = [ms |-> 500, afterBatch |-> j]
    /\ Len(dates) >= 1 => Len(delayLog) <= NumBatches - 1
    /\ Len(delayLog) <= Len(batches) /\ Len(batches) <= Len(delayLog) + 1
    /\ pc = "await" => Len(delayLog) = Len(batches) - 1
    /\ (pc = "done" /\ Len(dates) >= 1) => Len(delayLog) = NumBatches - 1

C4_Witness ==
    /\ pc = "done"
    /\ Len(dates) = 5 /\ maxConcurrency = 2
    /\ Len(delayLog) = 2

\* C5: on return successCount + failureCount is the number of dates,
\* successCount = |results|, failureCount = |failures|, and every date is
\* accounted for exactly once, in results or in failures.
C5_OutcomeAccounting ==
    pc = "done" =>
        /\ returned.successCount + returned.failureCount = Len(dates)
        /\ returned.successCount = Len(returned.results)
        /\ returned.failureCount = Len(returned.failures)
        /\ \A d \in Items :
              Occurrences(returned.results, ResultOf(d))
                  + Occurrences(returned.failures, d) = 1

C5_Witness ==
    /\ pc = "done"
    /\ returned.successCount >= 2
    /\ returned.failureCount >= 2

\* C6: a date whose worker throws on both attempts ends in failures and
\* nothing is aborted: every other date is still run, and each one whose
\* worker returned a value is in results.
C6_FailureIsolated ==
    pc = "done" =>
        \A d \in Items :
            outcomes[d] = <<"throw", "throw">> =>
                /\ Occurrences(failures, d) = 1
                /\ Occurrences(results, ResultOf(d)) = 0
                /\ Len(batches) = NumBatches
                /\ \A e \in Items \ {d} :
                      /\ calls[e] >= 1
                      /\ Last(outcomes[e]) = "value" =>
                            Occurrences(results, ResultOf(e)) = 1

C6_Witness ==
    /\ pc = "done"
    /\ maxConcurrency = 2
    /\ Len(dates) >= 3
    /\ outcomes[1] = <<"throw", "throw">>
    /\ outcomes[2] = <<"value">>
    /\ outcomes[3] = <<"throw", "value">>
    /\ results = <<ResultOf(2), ResultOf(3)>>

(***************************************************************************)
(* Properties of withDateRetry                                             *)
(***************************************************************************)
\* number of operation() calls made so far
DRCalls == Len(drOutcomes) + (IF drPc = "operation" THEN 1 ELSE 0)

DRFailed == {a \in 1..Len(drOutcomes) : ~drOutcomes[a].ok}

\* the last attempt allowed was made and failed
DRFinalFailure ==
    /\ Len(drOutcomes) >= 1
    /\ Len(drOutcomes) = drMaxAttempts
    /\ ~Last(drOutcomes).ok

\* C7: for maxAttempts >= 1 withDateRetry never throws, calls op at most
\* maxAttempts times, stops at the first success and returns its value, waits
\* the same delayMs between consecutive attempts and nothing after the last
\* one, and returns null when every attempt failed.
C7_DateRetryContract ==
    drMaxAttempts >= 1 =>
        /\ drPc \in {"start", "operation", "delay", "returned"}
        /\ DRCalls <= drMaxAttempts
        /\ \A a \in 1..Len(drOutcomes) :
              drOutcomes[a].ok =>
                  /\ a = Len(drOutcomes)
                  /\ drPc = "returned"
                  /\ drReturned = drOutcomes[a].value
        /\ \A j \in 1..Len(drWaits) : drWaits[j] = drBaseDelay
        /\ Len(drWaits) =
              Cardinality(DRFailed) - (IF DRFinalFailure THEN 1 ELSE 0)
        /\ drPc = "returned" =>
              \/ Last(drOutcomes).ok
              \/ /\ DRFinalFailure
                 /\ Cardinality(DRFailed) = drMaxAttempts
                 /\ drReturned = <<Null>>

C7_Witness ==
    /\ drMaxAttempts = 3
    /\ drPc = "returned"
    /\ Cardinality(DRFailed) = 3
    /\ drReturned = <<Null>>
    /\ drWaits = <<drBaseDelay, drBaseDelay>>

(***************************************************************************)
(* Properties of withRetry                                                 *)
(***************************************************************************)
WRFailed == {a \in 1..Len(wrOutcomes) : ~wrOutcomes[a].ok}

WRFinalFailure ==
    /\ Len(wrOutcomes) >= 1
    /\ Len(wrOutcomes) = wrMaxAttempts
    /\ ~Last(wrOutcomes).ok

\* C8: withRetry waits baseDelay * 2^(n-1) after the n-th failed attempt
\* before attempt n+1 (maxAttempts 3, baseDelay 1000: 1000 then 2000) and
\* does not wait after the final failed attempt.
C8_ExponentialBackoff ==
    /\ \A n \in 1..Len(wrWaits) : wrWaits[n] = wrBaseDelay * 2^(n - 1)
    /\ Len(wrWaits) =
          Cardinality(WRFailed) - (IF WRFinalFailure THEN 1 ELSE 0)
    /\ wrPc = "delay" => Len(wrWaits) = wrAttempt
    /\ (wrPc = "thrown" /\ wrMaxAttempts = 3 /\ wrBaseDelay = 1000)
          => wrWaits = <<1000, 2000>>

C8_Witness ==
    /\ wrPc = "thrown"
    /\ wrMaxAttempts = 3
    /\ wrBaseDelay = 1000
    /\ wrWaits = <<1000, 2000>>

\* C9: whenever withRetry throws, it throws a NetworkError whose cause is
\* the last underlying error and whose message carries the attempt count and
\* the context, after exactly maxAttempts calls of op that all failed; a
\* successful attempt ends the loop with its value and no further call.
C9_ExhaustionThrowsNetworkError ==
    /\ wrPc = "thrown" =>
          /\ wrThrown[1].name = "NetworkError"
          /\ Len(wrOutcomes) = wrMaxAttempts
          /\ Cardinality(WRFailed) = wrMaxAttempts
          /\ wrThrown[1].cause = Last(wrOutcomes).error
          /\ wrContext \in Range(wrThrown[1].message)
          /\ ToString(wrMaxAttempts) \in Range(wrThrown[1].message)
    /\ \A a \in 1..Len(wrOutcomes) :
          wrOutcomes[a].ok =>
              /\ a = Len(wrOutcomes)
              /\ wrPc = "returned"
              /\ wrReturned = wrOutcomes[a].value

(***************************************************************************)
(* Properties of withTimeout                                               *)
(***************************************************************************)
\* the outcome of the settlement event that happened first
TOFirstOutcome ==
    IF toEvents[1] = "operation"
    THEN toPromise
    ELSE PromiseRejected(
             [name |-> "NetworkError",
              message |-> <<toContext, " timed out after ",
                            ToString(toTimeoutMs), "ms">>,
              cause |-> <<>>])

\* C10: withTimeout settles once, with the outcome of the event that happens
\* first: the operation's own value or error, or a NetworkError naming the
\* context and timeoutMs when the timer fires first; a later event never
\* changes the outcome already delivered.
C10_FirstEventWins ==
    /\ Len(toDelivered) <= 1
    /\ toRace.state # "pending" => (toEvents # <<>> /\ toRace = TOFirstOutcome)
    /\ (toPc # "start" /\ toEvents # <<>>) => toRace.state # "pending"
    /\ toDelivered # <<>> => toDelivered[1] = TOFirstOutcome

C10_Witness ==
    /\ toEvents = <<"timer", "operation">>
    /\ toPromise.state = "fulfilled"
    /\ toDelivered # <<>>
    /\ toDelivered[1].state = "rejected"

(***************************************************************************)
(* searchOperation (db-price-analyzer.js 1238-1300):                       *)
(*   withTimeout(withRetry(() => strategy(...), retryAttempts, 1000, ctx), *)
(*               searchTimeout, ctx)                                       *)
(* The strategy hands its dates to withProgressiveSearch and returns       *)
(* searchResult.results (journey-search.js 134-159).                       *)
(***************************************************************************)
MaxGuardedItems == 3
MaxGuardedConcurrency == 2

\* variant: the timer callback aborts the guarded operation
TimeoutCancelsOperation_OnFire == toTimer = "fired"

\* error-handler.js 204-208: the timer callback only rejects the timer
\* promise; nothing in withTimeout aborts the guarded promise
TimeoutCancelsOperation == FALSE

\* the strategy invoked by withRetry is running
OperationRunning == wrPc = "operation" /\ ~TimeoutCancelsOperation

\* db-price-analyzer.js 1241-1252: withRetry(...) is evaluated first and runs
\* up to its first await (inside the strategy), then withTimeout arms the
\* timer and sets up the race
GuardedSearchCall ==
    /\ toPc = "start"
    /\ wrPc = "start"
    /\ wrAttempt' = 1
    /\ toPc' = "awaiting"
    /\ toTimer' = "armed"
    /\ IF 1 <= wrMaxAttempts
       THEN /\ wrPc' = "operation"
            /\ UNCHANGED <<wrThrown, toPromise, toRace, toEvents>>
       ELSE /\ wrPc' = "thrown"
            /\ wrThrown' = ThrowLastError(wrLastError)
            /\ toPromise' = PromiseRejected(ThrowLastError(wrLastError)[1])
            /\ toRace' = PromiseRejected(ThrowLastError(wrLastError)[1])
            /\ toEvents' = Append(toEvents, "operation")
    /\ UNCHANGED <<wrMaxAttempts, wrBaseDelay, wrContext, wrLastError,
                   wrReturned, wrOutcomes, wrWaits>>
    /\ UNCHANGED <<toTimeoutMs, toContext, toDelivered>>
    /\ UNCHANGED <<psVars, drVars, searchVars, strategyVars>>

\* the steps of the strategy's withProgressiveSearch run
GuardedStartBatch == OperationRunning /\ StartBatch

GuardedAttemptResolves(d) == OperationRunning /\ AttemptResolves(d)

GuardedAttemptThrows(d) == OperationRunning /\ AttemptThrows(d)

GuardedRetryDelayElapses(d) == OperationRunning /\ RetryDelayElapses(d)

GuardedBatchCompletes == OperationRunning /\ BatchCompletes

GuardedInterBatchDelayElapses == OperationRunning /\ InterBatchDelayElapses

GuardedReturnOutcome == OperationRunning /\ ReturnOutcome

\* journey-search.js 159, error-handler.js 79, 203: the strategy returns
\* searchResult.results, withRetry returns it and the guarded promise is
\* fulfilled with it
StrategyReturns ==
    /\ OperationRunning
    /\ pc = "done"
    /\ wrOutcomes' = Append(wrOutcomes, Resolved(returned.results))
    /\ wrReturned' = <<returned.results>>
    /\ wrPc' = "returned"
    /\ toPromise' = PromiseFulfilled(returned.results)
    /\ toEvents' = Append(toEvents, "operation")
    /\ toRace' = RaceSettle(toRace, PromiseFulfilled(returned.results))
    /\ UNCHANGED <<wrMaxAttempts, wrBaseDelay, wrContext, wrAttempt,
                   wrLastError, wrThrown, wrWaits>>
    /\ UNCHANGED <<toTimeoutMs, toContext, toPc, toTimer, toDelivered>>
    /\ UNCHANGED <<psVars, drVars, searchVars, strategyVars>>

InitGuardedSearch ==
    /\ \E n \in 0..MaxGuardedItems, k \in 1..MaxGuardedConcurrency :
          PSInitOf(n, k)
    /\ \E m \in 0..MaxAttemptsBound :
          WRInitOf(m, 1000, "Same-day trip search")
    /\ TOInitOf(300000, "Same-day trip search")
    /\ DRIdle /\ SearchIdle /\ StrategiesIdle

NextGuardedSearch ==
    \/ GuardedSearchCall
    \/ GuardedStartBatch
    \/ \E d \in 1..MaxGuardedItems : GuardedAttemptResolves(d)
    \/ \E d \in 1..MaxGuardedItems : GuardedAttemptThrows(d)
    \/ \E d \in 1..MaxGuardedItems : GuardedRetryDelayElapses(d)
    \/ GuardedBatchCompletes
    \/ GuardedInterBatchDelayElapses
    \/ GuardedReturnOutcome
    \/ StrategyReturns
    \/ TOTimerFires
    \/ TODeliver

SpecGuardedSearch == InitGuardedSearch /\ [][NextGuardedSearch]_vars

\* the caller has received the timeout error
TimeoutReported ==
    /\ toDelivered # <<>>
    /\ toEvents # <<>>
    /\ toEvents[1] = "timer"

\* C11: withTimeout does not cancel the guarded search: after the timer won
\* and the caller received the NetworkError, the search still takes its next
\* steps (batches start, retry delays elapse, queries resolve, the strategy
\* returns), and its outcome is delivered to nobody.
C11_TimeoutDoesNotCancel ==
    TimeoutReported =>
        /\ toPc = "done"
        /\ toDelivered =
              <<PromiseRejected(TimeoutError(toContext, toTimeoutMs))>>
        /\ wrPc = "operation" =>
              /\ (pc = "loop" /\ i < Len(dates)) => ENABLED GuardedStartBatch
              /\ \A d \in Items :
                    /\ itemState[d] = "retryDelay" =>
                          ENABLED GuardedRetryDelayElapses(d)
                    /\ itemState[d] = "running" =>
                          ENABLED GuardedAttemptResolves(d)
              /\ pc = "done" => ENABLED StrategyReturns
        /\ wrPc = "returned" =>
              /\ toPromise = PromiseFulfilled(returned.results)
              /\ toRace # toPromise

C11_Witness ==
    /\ TimeoutReported
    /\ wrPc = "operation"
    /\ pc = "loop" /\ i < Len(dates)
    /\ Len(batches) >= 1
    /\ \E d \in Items : calls[d] = 2
    /\ ENABLED GuardedStartBatch

(***************************************************************************)
(* More properties of withProgressiveSearch                                *)
(***************************************************************************)
\* C12: an item failure never escapes the executor: whatever the workers
\* do, the run is never aborted or stuck before its normal return, and a run
\* with failed and successful items returns both lists.
C12_FailuresDoNotEscape ==
    /\ pc \in {"loop", "await", "delay", "done"}
    /\ pc = "loop" => ENABLED (StartBatch \/ ReturnOutcome)
    /\ pc = "await" =>
          \/ ENABLED BatchCompletes
          \/ \E d \in Items :
                ENABLED (AttemptResolves(d) \/ RetryDelayElapses(d))
    /\ pc = "delay" => ENABLED InterBatchDelayElapses
    /\ pc = "done" =>
          /\ returned # NoReturn
          /\ returned.results = results
          /\ returned.failures = failures
          /\ \A d \in Items :
                (Last(outcomes[d]) = "value") = (Occurrences(returned.results, ResultOf(d)) = 1)
          /\ \A d \in Items :
                (Last(outcomes[d]) # "value") = (Occurrences(returned.failures, d) = 1)

C12_Witness ==
    /\ pc = "done"
    /\ \E d, e, f \in Items :
          /\ outcomes[d] = <<"throw", "throw">>
          /\ outcomes[e] = <<"null">>
          /\ outcomes[f] = <<"value">>
    /\ returned.successCount >= 1
    /\ returned.failureCount >= 2

(***************************************************************************)
(* time-preferences.js: time strings are sequences of characters, times of *)
(* day are minutes since local midnight                                    *)
(***************************************************************************)
DigitChars == <<"0", "1", "2", "3", "4", "5", "6", "7", "8", "9">>

IsDigit(c) == \E n \in 1..10 : DigitChars[n] = c

\* parseInt of one decimal digit
DigitValue(c) == (CHOOSE n \in 1..10 : DigitChars[n] = c) - 1

\* extractTimeFromDate: getHours() * 60 + getMinutes()
MinutesOfDay == 0..(23 * 60 + 59)

\* minutesToTimeString: HH:MM with both fields padded to two digits, null
\* (<<>>) outside the day
MinutesToTimeString(minutes) ==
    IF minutes < 0 \/ minutes >= 24 * 60 THEN <<>>
    ELSE LET hours == minutes \div 60
             mins == minutes % 60
         IN <<DigitChars[(hours \div 10) + 1], DigitChars[(hours % 10) + 1],
              ":",
              DigitChars[(mins \div 10) + 1], DigitChars[(mins % 10) + 1]>>

\* parseTimeToMinutes: /^(\d{1,2}):(\d{2})$/, then the range test; <<>> is
\* null, <<n>> the minutes
ParseTimeToMinutes(timeStr) ==
    IF timeStr = <<>> THEN <<>>
    ELSE IF Len(timeStr) \notin {4, 5} THEN <<>>
    ELSE LET n == Len(timeStr) IN
         IF \/ timeStr[n - 2] # ":"
            \/ \E x \in (1..n) \ {n - 2} : ~IsDigit(timeStr[x])
         THEN <<>>
         ELSE LET hours == IF n = 5
                           THEN 10 * DigitValue(timeStr[1])
                                + DigitValue(timeStr[2])
                           ELSE DigitValue(timeStr[1])
                  minutes == 10 * DigitValue(timeStr[n - 1])
                             + DigitValue(timeStr[n])
              IN IF hours < 0 \/ hours > 23 \/ minutes < 0 \/ minutes > 59
                 THEN <<>>
                 ELSE <<hours * 60 + minutes>>

\* variant: the late band ends at 04:59, as the comment at line 119 says
TIME_RANGES_LateTo0459 ==
    [early     |-> [start |-> <<"0", "4", ":", "0", "0">>,
                    end   |-> <<"0", "7", ":", "5", "9">>],
     morning   |-> [start |-> <<"0", "8", ":", "0", "0">>,
                    end   |-> <<"1", "1", ":", "5", "9">>],
     afternoon |-> [start |-> <<"1", "2", ":", "0", "0">>,
                    end   |-> <<"1", "7", ":", "5", "9">>],
     evening   |-> [start |-> <<"1", "8", ":", "0", "0">>,
                    end   |-> <<"2", "1", ":", "5", "9">>],
     late      |-> [start |-> <<"2", "2", ":", "0", "0">>,
                    end   |-> <<"0", "4", ":", "5", "9">>]]

TIME_RANGES ==
    [early     |-> [start |-> <<"0", "4", ":", "0", "0">>,
                    end   |-> <<"0", "7", ":", "5", "9">>],
     morning   |-> [start |-> <<"0", "8", ":", "0", "0">>,
                    end   |-> <<"1", "1", ":", "5", "9">>],
     afternoon |-> [start |-> <<"1", "2", ":", "0", "0">>,
                    end   |-> <<"1", "7", ":", "5", "9">>],
     evening   |-> [start |-> <<"1", "8", ":", "0", "0">>,
                    end   |-> <<"2", "1", ":", "5", "9">>],
     late      |-> [start |-> <<"2", "2", ":", "0", "0">>,
                    end   |-> <<"0", "3", ":", "5", "9">>]]

TIME_PREFERENCES ==
    {"early", "morning", "afternoon", "evening", "late", "custom", "any"}

\* variant: the end of a custom range is exclusive
CustomRangeMatches_EndExclusive(timeMinutes, customMinutes, customEndMinutes) ==
    IF customEndMinutes < customMinutes
    THEN timeMinutes >= customMinutes \/ timeMinutes < customEndMinutes
    ELSE timeMinutes >= customMinutes /\ timeMinutes < customEndMinutes

\* lines 101-106: custom range with both ends parsed
CustomRangeMatches(timeMinutes, customMinutes, customEndMinutes) ==
    IF customEndMinutes < customMinutes
    THEN timeMinutes >= customMinutes \/ timeMinutes <= customEndMinutes
    ELSE timeMinutes >= customMinutes /\ timeMinutes <= customEndMinutes

\* timeMatchesPreference; customTime and customTimeEnd are <<>> (null) or
\* <<string>>, and !x holds for null and for the empty string
TimeMatchesPreference(timeMinutes, preference, customTime, customTimeEnd) ==
    IF preference = "any" THEN TRUE
    ELSE IF preference = "custom" THEN
        IF customTime = <<>> \/ customTime = << <<>> >> THEN TRUE
        ELSE LET customMinutes == ParseTimeToMinutes(customTime[1]) IN
             IF customMinutes = <<>> THEN TRUE
             ELSE IF customTimeEnd # <<>> /\ customTimeEnd # << <<>> >>
             THEN LET customEndMinutes == ParseTimeToMinutes(customTimeEnd[1])
                  IN IF customEndMinutes = <<>>
                     THEN timeMinutes >= customMinutes[1]
                     ELSE CustomRangeMatches(timeMinutes, customMinutes[1],
                                             customEndMinutes[1])
             ELSE timeMinutes >= customMinutes[1]
    ELSE IF preference \notin DOMAIN TIME_RANGES THEN TRUE
    ELSE LET range == TIME_RANGES[preference]
             startMinutes == ParseTimeToMinutes(range.start)
             endMinutes == ParseTimeToMinutes(range.end)
         IN IF startMinutes = <<>> \/ endMinutes = <<>> THEN TRUE
            ELSE IF endMinutes[1] < startMinutes[1]
            THEN timeMinutes >= startMinutes[1] \/ timeMinutes <= endMinutes[1]
            ELSE timeMinutes >= startMinutes[1] /\ timeMinutes <= endMinutes[1]

\* the custom bounds tried, as minutes of the day
CustomMinutes == {0, 240, 540, 1020, 1320, 1439}

\* the custom time strings tried: well-formed ones, a one-digit hour, and
\* strings parseTimeToMinutes rejects ("24:00", "12:60", "noon", "")
CustomTimes ==
    {MinutesToTimeString(n) : n \in CustomMinutes}
        \cup {<<"9", ":", "0", "0">>,
              <<"2", "4", ":", "0", "0">>,
              <<"1", "2", ":", "6", "0">>,
              <<"n", "o", "o", "n">>,
              <<>>}

OptionalCustomTimes == {<<>>} \cup {<<c>> : c \in CustomTimes}

TPCall ==
    /\ tpPc = "start"
    /\ tpResult' = <<TimeMatchesPreference(tpTimeMinutes, tpPreference,
                                           tpCustomTime, tpCustomTimeEnd)>>
    /\ tpPc' = "returned"
    /\ UNCHANGED <<tpTimeMinutes, tpPreference, tpCustomTime, tpCustomTimeEnd>>
    /\ UNCHANGED othersThanTP

InitTimePreference ==
    /\ tpTimeMinutes \in MinutesOfDay
    /\ tpPreference \in TIME_PREFERENCES
    /\ tpCustomTime \in
          (IF tpPreference = "custom" THEN OptionalCustomTimes ELSE {<<>>})
    /\ tpCustomTimeEnd \in
          (IF tpPreference = "custom" THEN OptionalCustomTimes ELSE {<<>>})
    /\ tpPc = "start"
    /\ tpResult = <<>>
    /\ HandlersIdle /\ SDIdle /\ SSIdle /\ OWIdle /\ MDIdle /\ FXIdle /\ StrategiesIdle

NextTimePreference == TPCall

SpecTimePreference == InitTimePreference /\ [][NextTimePreference]_vars

C14_CustomRange ==
    (tpPc = "returned" /\ tpPreference = "custom") =>
        \A s \in CustomMinutes :
            tpCustomTime = <<MinutesToTimeString(s)>> =>
                /\ tpCustomTimeEnd = <<>> => tpResult = <<tpTimeMinutes >= s>>
                /\ \A e \in CustomMinutes :
                      tpCustomTimeEnd = <<MinutesToTimeString(e)>> =>
                          /\ s <= e =>
                                tpResult = <<s <= tpTimeMinutes
                                             /\ tpTimeMinutes <= e>>
                          /\ e < s =>
                                tpResult = <<tpTimeMinutes >= s
                                             \/ tpTimeMinutes <= e>>

C14_Witness ==
    /\ tpPc = "returned"
    /\ tpPreference = "custom"
    /\ tpCustomTime = <<MinutesToTimeString(540)>>
    /\ tpCustomTimeEnd = <<MinutesToTimeString(1020)>>
    /\ tpTimeMinutes = 1020
    /\ tpResult = <<TRUE>>

(***************************************************************************)
(* Journeys as the provider returns them.  A journey is                    *)
(*   [legs, departure, arrival, price]                                     *)
(* legs: the number of legs (0: legs missing or empty); departure: the     *)
(* first leg's plannedDeparture || departure and arrival: the last leg's   *)
(* plannedArrival || arrival, both in minutes since local midnight of the  *)
(* searched date (1440 and more: the next day); price: <<>> (no price) or  *)
(* <<amount>> in cents                                                     *)
(***************************************************************************)
MaxJourneys == 2

Journey(legs, departure, arrival, price) ==
    [legs |-> legs, departure |-> departure, arrival |-> arrival,
     price |-> price]

\* Date.prototype.getHours of a journey timestamp
GetHours(timestamp) == (timestamp \div 60) % 24

\* Date.prototype.getMinutes of a journey timestamp
GetMinutes(timestamp) == timestamp % 60

\* extractTimeFromDate (time-preferences.js 55-60)
ExtractTimeFromDate(timestamp) ==
    GetHours(timestamp) * 60 + GetMinutes(timestamp)

\* journey.price && journey.price.amount: an amount of 0 is falsy
HasPrice(journey) == journey.price # <<>> /\ journey.price[1] # 0

\* !journey.legs || journey.legs.length === 0
HasNoLegs(journey) == journey.legs = 0

\* the lists of at most MaxJourneys journeys over a set of journeys
JourneyLists(samples) ==
    UNION {[1..n -> samples] : n \in 0..MaxJourneys}

\* time preferences of one direction (cli-args.js, preferences.js): every
\* field is <<>> (unset) or <<value>>
Preferences(departure, custom, customEnd, type, time, timeEnd) ==
    [departurePreference |-> departure,
     customDepartureTime |-> custom,
     customDepartureTimeEnd |-> customEnd,
     arrivalConstraintType |-> type,
     arrivalConstraintTime |-> time,
     arrivalConstraintTimeEnd |-> timeEnd]

DepartureOnly(preference) ==
    Preferences(<<preference>>, <<>>, <<>>, <<>>, <<>>, <<>>)

\* arrivalMeetsConstraint (time-preferences.js 129-158)
ArrivalMeetsConstraint(arrivalMinutes, constraintType, constraintTime, constraintTimeEnd) ==
    IF constraintType = "any" THEN TRUE
    ELSE LET constraintMinutes ==
                 IF constraintTime = <<>> THEN <<>>
                 ELSE ParseTimeToMinutes(constraintTime[1])
         IN IF constraintMinutes = <<>> THEN TRUE
            ELSE IF constraintType = "before"
                 THEN arrivalMinutes <= constraintMinutes[1]
            ELSE IF constraintType = "after"
                 THEN arrivalMinutes >= constraintMinutes[1]
            ELSE IF constraintType = "between"
                 THEN IF constraintTimeEnd = <<>>
                         \/ constraintTimeEnd = << <<>> >>
                      THEN arrivalMinutes >= constraintMinutes[1]
                      ELSE LET endMinutes ==
                                   ParseTimeToMinutes(constraintTimeEnd[1])
                           IN IF endMinutes = <<>>
                              THEN arrivalMinutes >= constraintMinutes[1]
                              ELSE IF endMinutes[1] < constraintMinutes[1]
                              THEN \/ arrivalMinutes >= constraintMinutes[1]
                                   \/ arrivalMinutes <= endMinutes[1]
                              ELSE /\ arrivalMinutes >= constraintMinutes[1]
                                   /\ arrivalMinutes <= endMinutes[1]
            ELSE TRUE

\* the predicate of filterJourneysByTime (time-preferences.js 162-194)
JourneyMatchesTime(journey, preferences) ==
    IF HasNoLegs(journey) THEN FALSE
    ELSE LET departureTime == ExtractTimeFromDate(journey.departure)
             arrivalTime == ExtractTimeFromDate(journey.arrival)
         IN /\ preferences.departurePreference # <<>> =>
                  TimeMatchesPreference(departureTime,
                                        preferences.departurePreference[1],
                                        preferences.customDepartureTime,
                                        preferences.customDepartureTimeEnd)
            /\ (/\ preferences.arrivalConstraintType # <<>>
                /\ preferences.arrivalConstraintType # <<"any">>) =>
                  ArrivalMeetsConstraint(arrivalTime,
                                         preferences.arrivalConstraintType[1],
                                         preferences.arrivalConstraintTime,
                                         preferences.arrivalConstraintTimeEnd)

\* filterJourneysByTime
FilterJourneysByTime(journeys, preferences) ==
    LET Keep(journey) == JourneyMatchesTime(journey, preferences)
    IN SelectSeq(journeys, Keep)

\* variant: the fold keeps the later journey
Cheaper_KeepsLater(journey, min) == TRUE

\* journey.price.amount < min.price.amount
Cheaper(journey, min) == journey.price[1] < min.price[1]

\* journeys.reduce((min, journey) => cheaper ? journey : min): a left fold
\* starting with the first element
RECURSIVE ReduceCheapest(_, _, _)
ReduceCheapest(journeys, min, k) ==
    IF k > Len(journeys) THEN min
    ELSE ReduceCheapest(journeys,
                        IF Cheaper(journeys[k], min) THEN journeys[k] ELSE min,
                        k + 1)

Cheapest(journeys) == ReduceCheapest(journeys, journeys[1], 2)

\* extractJourneyInfo (journey-utils.js 61-90): the fields used here
ExtractJourneyInfo(journey) ==
    [departure |-> journey.departure, arrival |-> journey.arrival,
     price |-> journey.price[1]]

\* the TypeError of reading a property of undefined
TypeError == [name |-> "TypeError",
              message |-> <<"Cannot read properties of undefined">>,
              cause |-> <<>>]

(***************************************************************************)
(* searchSameDayTrips.searchSingleDate (journey-search.js 46-131)          *)
(***************************************************************************)
\* variant: the price is not looked at
PricedOutbound_KeepsUnpriced(journeys) ==
    LET Keep(journey) == ~HasNoLegs(journey)
    IN SelectSeq(journeys, Keep)

\* lines 60-63: outbound journeys with legs and a price
PricedOutbound(journeys) ==
    LET Keep(journey) == ~HasNoLegs(journey) /\ HasPrice(journey)
    IN SelectSeq(journeys, Keep)

\* lines 66-75: the outbound time preference, or arrival before 12:00
ValidOutbound(journeys, outboundPreferences) ==
    IF outboundPreferences # <<>>
    THEN FilterJourneysByTime(PricedOutbound(journeys), outboundPreferences[1])
    ELSE LET Keep(journey) == GetHours(journey.arrival) < 12
         IN SelectSeq(PricedOutbound(journeys), Keep)

\* variant: the return query is issued whatever the outbound side holds
OutboundSideEmpty_Ignored(validOutbound) == FALSE

\* lines 77-84: validOutbound.length === 0 throws before the return query
OutboundSideEmpty(validOutbound) == Len(validOutbound) = 0

\* lines 92-94: return journeys with a price (legs are not looked at)
PricedReturn(journeys) == SelectSeq(journeys, HasPrice)

\* variant: no early-morning exclusion
DepartsSameDay_NoExclusion(journey) == TRUE

\* lines 97-103: departureHour >= 6 && departureHour <= 23
DepartsSameDay(journey) ==
    GetHours(journey.departure) >= 6 /\ GetHours(journey.departure) <= 23

\* line 98-99: journey.legs[0].plannedDeparture throws for a journey
\* without legs
ReturnFilterThrows(journeys) ==
    \E k \in 1..Len(PricedReturn(journeys)) :
        HasNoLegs(PricedReturn(journeys)[k])

\* lines 92-108: price filter, early-morning exclusion, then the return time
\* preference
ValidReturn(journeys, returnPreferences) ==
    LET sameDay == SelectSeq(PricedReturn(journeys), DepartsSameDay)
    IN IF returnPreferences # <<>>
       THEN FilterJourneysByTime(sameDay, returnPreferences[1])
       ELSE sameDay

\* lines 114-130
SameDayResult(validOutbound, validReturn) ==
    LET cheapestOutbound == Cheapest(validOutbound)
        cheapestReturn == Cheapest(validReturn)
    IN [totalPrice |-> cheapestOutbound.price[1] + cheapestReturn.price[1],
        outbound |-> ExtractJourneyInfo(cheapestOutbound),
        return |-> ExtractJourneyInfo(cheapestReturn)]

\* the outbound journeys the provider is tried with
OutboundSamples ==
    {Journey(1, 420, 600, <<4495>>),
     Journey(2, 480, 690, <<6000>>),
     Journey(1, 660, 810, <<3000>>),
     Journey(1, 450, 630, <<>>),
     Journey(1, 455, 635, <<0>>),
     Journey(0, 0, 0, <<2000>>)}

\* the return journeys the provider is tried with: evening departures,
\* departures after midnight (02:00, 05:59, 06:00 of the next day), an
\* unpriced journey and one without legs
ReturnSamples ==
    {Journey(1, 1110, 1290, <<4495>>),
     Journey(2, 1380, 1500, <<5000>>),
     Journey(1, 1560, 1700, <<1000>>),
     Journey(1, 1799, 1900, <<1500>>),
     Journey(1, 1800, 1900, <<2000>>),
     Journey(1, 1200, 1300, <<>>),
     Journey(0, 0, 0, <<2500>>)}

OutboundPreferenceSamples ==
    {<<>>,
     <<DepartureOnly("early")>>,
     <<Preferences(<<"any">>, <<>>, <<>>,
                   <<"before">>, <<MinutesToTimeString(660)>>, <<>>)>>}

ReturnPreferenceSamples ==
    {<<>>,
     <<DepartureOnly("late")>>,
     <<DepartureOnly("evening")>>,
     <<Preferences(<<"custom">>, <<MinutesToTimeString(0)>>,
                   <<MinutesToTimeString(1200)>>, <<>>, <<>>, <<>>)>>}

\* line 46-57: searchSingleDate runs up to the await of the outbound query
SDCall ==
    /\ sdPc = "start"
    /\ sdPc' = "outbound"
    /\ UNCHANGED <<sdOutboundPreferences, sdReturnPreferences,
                   sdValidOutbound, sdReturnJourneys, sdValidReturn,
                   sdResult, sdError>>
    /\ UNCHANGED othersThanSD

\* lines 53-90: the outbound query resolves; validOutbound is computed, and
\* either the error is thrown or the return query is issued
SDOutboundQueryResolves ==
    /\ sdPc = "outbound"
    /\ \E journeys \in JourneyLists(OutboundSamples) :
          LET validOutbound == ValidOutbound(journeys, sdOutboundPreferences)
          IN /\ sdValidOutbound' = validOutbound
             /\ IF OutboundSideEmpty(validOutbound)
                THEN /\ sdPc' = "thrown"
                     /\ sdError' = <<PlainError(
                                       "No suitable outbound journeys found")>>
                ELSE /\ sdPc' = "return"
                     /\ UNCHANGED sdError
    /\ UNCHANGED <<sdOutboundPreferences, sdReturnPreferences,
                   sdReturnJourneys, sdValidReturn, sdResult>>
    /\ UNCHANGED othersThanSD

\* line 53: client.journeys rejects
SDOutboundQueryRejects ==
    /\ sdPc = "outbound"
    /\ sdPc' = "thrown"
    /\ sdError' = <<PlainError("ECONNRESET")>>
    /\ UNCHANGED <<sdOutboundPreferences, sdReturnPreferences,
                   sdValidOutbound, sdReturnJourneys, sdValidReturn, sdResult>>
    /\ UNCHANGED othersThanSD

\* lines 86-130: the return query resolves; validReturn is computed and the
\* result is returned or an error thrown
SDReturnQueryResolves ==
    /\ sdPc = "return"
    /\ \E journeys \in JourneyLists(ReturnSamples) :
          /\ sdReturnJourneys' = journeys
          /\ IF ReturnFilterThrows(journeys)
             THEN /\ sdPc' = "thrown"
                  /\ sdError' = <<TypeError>>
                  /\ UNCHANGED <<sdValidReturn, sdResult>>
             ELSE LET validReturn == ValidReturn(journeys, sdReturnPreferences)
                  IN /\ sdValidReturn' = validReturn
                     /\ IF Len(validReturn) = 0
                        THEN /\ sdPc' = "thrown"
                             /\ sdError' = <<PlainError(
                                       "No suitable return journeys found")>>
                             /\ UNCHANGED sdResult
                        ELSE /\ sdPc' = "returned"
                             /\ sdResult' = <<SameDayResult(sdValidOutbound,
                                                            validReturn)>>
                             /\ UNCHANGED sdError
    /\ UNCHANGED <<sdOutboundPreferences, sdReturnPreferences,
                   sdValidOutbound>>
    /\ UNCHANGED othersThanSD

\* line 86: client.journeys rejects
SDReturnQueryRejects ==
    /\ sdPc = "return"
    /\ sdPc' = "thrown"
    /\ sdError' = <<PlainError("ECONNRESET")>>
    /\ UNCHANGED <<sdOutboundPreferences, sdReturnPreferences,
                   sdValidOutbound, sdReturnJourneys, sdValidReturn, sdResult>>
    /\ UNCHANGED othersThanSD

InitSameDayDate ==
    /\ sdOutboundPreferences \in OutboundPreferenceSamples
    /\ sdReturnPreferences \in ReturnPreferenceSamples
    /\ sdPc = "start"
    /\ sdValidOutbound = <<>>
    /\ sdReturnJourneys = <<>>
    /\ sdValidReturn = <<>>
    /\ sdResult = <<>>
    /\ sdError = <<>>
    /\ HandlersIdle /\ TPIdle /\ SSIdle /\ OWIdle /\ MDIdle /\ FXIdle /\ StrategiesIdle

NextSameDayDate ==
    \/ SDCall
    \/ SDOutboundQueryResolves
    \/ SDOutboundQueryRejects
    \/ SDReturnQueryResolves
    \/ SDReturnQueryRejects

SpecSameDayDate == InitSameDayDate /\ [][NextSameDayDate]_vars

\* the least element of a nonempty set of numbers
SetMin(S) == CHOOSE x \in S : \A y \in S : x <= y

\* the amounts of a list of priced journeys
Amounts(journeys) == {journeys[k].price[1] : k \in 1..Len(journeys)}

\* the hours 00:00..05:59
EarlyMorningHours == 0..5

\* C15: the same-day strategy never selects a return journey departing
\* between 00:00 and 05:59, whatever the provider returned and whatever the
\* time preferences are, even when that journey is the cheapest one; no such
\* journey is among the candidates the return preference is applied to.
C15_NoEarlyMorningReturn ==
    /\ \A k \in 1..Len(sdValidReturn) :
          GetHours(sdValidReturn[k].departure) \notin EarlyMorningHours
    /\ sdPc = "returned" =>
          /\ GetHours(sdResult[1].return.departure) \notin EarlyMorningHours
          /\ \E k \in 1..Len(sdReturnJourneys) :
                /\ sdReturnJourneys[k].departure = sdResult[1].return.departure
                /\ sdReturnJourneys[k].price = <<sdResult[1].return.price>>

C15_Witness ==
    /\ sdPc = "returned"
    /\ sdReturnPreferences = <<DepartureOnly("late")>>
    /\ \E k \in 1..Len(sdReturnJourneys) :
          /\ GetHours(sdReturnJourneys[k].departure) = 2
          /\ HasPrice(sdReturnJourneys[k])
          /\ sdReturnJourneys[k].price[1] < sdResult[1].return.price

\* C16: when both sides have a valid candidate, totalPrice is the least
\* price of the valid outbound candidates plus the least price of the valid
\* return candidates, each minimum taken on its own side (outbound
\* {4495, 6000} and return {4495} give 8990).
C16_IndependentMinima ==
    sdPc = "returned" =>
          /\ Len(sdValidOutbound) > 0 /\ Len(sdValidReturn) > 0
          /\ sdResult[1].outbound.price = SetMin(Amounts(sdValidOutbound))
          /\ sdResult[1].return.price = SetMin(Amounts(sdValidReturn))
          /\ sdResult[1].totalPrice =
                SetMin(Amounts(sdValidOutbound))
                    + SetMin(Amounts(sdValidReturn))
          /\ (/\ Amounts(sdValidOutbound) = {4495, 6000}
              /\ Amounts(sdValidReturn) = {4495})
                => sdResult[1].totalPrice = 8990

C16_Witness ==
    /\ sdPc = "returned"
    /\ Amounts(sdValidOutbound) = {4495, 6000}
    /\ sdValidOutbound[1].price = <<4495>>
    /\ Amounts(sdValidReturn) = {4495}
    /\ sdResult[1].totalPrice = 8990

(***************************************************************************)
(* searchSameDayTrips (journey-search.js 30-160): searchSingleDate is the  *)
(* searchFunction of a withProgressiveSearch run over the dates, and the   *)
(* strategy returns searchResult.results                                   *)
(***************************************************************************)
MaxSameDayDates == 2

\* one call of searchSingleDate: phase is return (awaiting the return
\* query), returned or thrown
SingleDateAttempt(phase, validOutbound, validReturn, result, error) ==
    [phase |-> phase, validOutbound |-> validOutbound,
     validReturn |-> validReturn, result |-> result, error |-> error]

\* the provider answers tried for the outbound query: two morning journeys,
\* or one journey arriving 13:30
SSOutboundResponses ==
    {<<Journey(1, 420, 600, <<4495>>), Journey(2, 480, 690, <<6000>>)>>,
     <<Journey(1, 660, 810, <<3000>>)>>}

\* the provider answers tried for the return query: a 02:00 and an 18:30
\* journey, or the 02:00 journey alone
SSReturnResponses ==
    {<<Journey(1, 1560, 1700, <<1000>>), Journey(1, 1110, 1290, <<4495>>)>>,
     <<Journey(1, 1560, 1700, <<1000>>)>>}

\* searchSingleDate(date) was called by withDateRetry and awaits the
\* outbound query
AwaitingOutbound(d) ==
    /\ d \in DOMAIN itemState
    /\ itemState[d] = "running"
    /\ Len(ssAttempts[d]) = Len(outcomes[d])

\* the current call of searchSingleDate(date) is in the given phase
CurrentAttemptIn(d, phase) ==
    /\ d \in DOMAIN itemState
    /\ itemState[d] = "running"
    /\ Len(ssAttempts[d]) = Len(outcomes[d]) + 1
    /\ Last(ssAttempts[d]).phase = phase

\* lines 53-90 for one date
SSOutboundQueryResolves(d) ==
    /\ AwaitingOutbound(d)
    /\ \E journeys \in SSOutboundResponses :
          LET validOutbound == ValidOutbound(journeys, sdOutboundPreferences)
          IN ssAttempts' = [ssAttempts EXCEPT ![d] = Append(@,
                IF OutboundSideEmpty(validOutbound)
                THEN SingleDateAttempt("thrown", validOutbound, <<>>, <<>>,
                        <<PlainError("No suitable outbound journeys found")>>)
                ELSE SingleDateAttempt("return", validOutbound, <<>>, <<>>,
                                       <<>>))]
    /\ UNCHANGED <<ssReturned, othersThanSS>>

\* line 53: the outbound query rejects
SSOutboundQueryRejects(d) ==
    /\ AwaitingOutbound(d)
    /\ ssAttempts' = [ssAttempts EXCEPT ![d] = Append(@,
          SingleDateAttempt("thrown", <<>>, <<>>, <<>>,
                            <<PlainError("ECONNRESET")>>))]
    /\ UNCHANGED <<ssReturned, othersThanSS>>

\* lines 86-130 for one date
SSReturnQueryResolves(d) ==
    /\ CurrentAttemptIn(d, "return")
    /\ \E journeys \in SSReturnResponses :
          LET validOutbound == Last(ssAttempts[d]).validOutbound
              validReturn == ValidReturn(journeys, sdReturnPreferences)
          IN ssAttempts' = [ssAttempts EXCEPT ![d][Len(ssAttempts[d])] =
                IF ReturnFilterThrows(journeys)
                THEN SingleDateAttempt("thrown", validOutbound, <<>>, <<>>,
                                       <<TypeError>>)
                ELSE IF Len(validReturn) = 0
                THEN SingleDateAttempt("thrown", validOutbound, validReturn,
                        <<>>,
                        <<PlainError("No suitable return journeys found")>>)
                ELSE SingleDateAttempt("returned", validOutbound, validReturn,
                        <<SameDayResult(validOutbound, validReturn)>>, <<>>)]
    /\ UNCHANGED <<ssReturned, othersThanSS>>

\* line 86: the return query rejects
SSReturnQueryRejects(d) ==
    /\ CurrentAttemptIn(d, "return")
    /\ ssAttempts' = [ssAttempts EXCEPT ![d][Len(ssAttempts[d])] =
          SingleDateAttempt("thrown", @.validOutbound, <<>>, <<>>,
                            <<PlainError("ECONNRESET")>>)]
    /\ UNCHANGED <<ssReturned, othersThanSS>>

\* lines 135-140, error-handler.js 108, 151-160: searchSingleDate returned
\* its object and withDateRetry passes it on
SSAttemptResolves(d) ==
    /\ CurrentAttemptIn(d, "returned")
    /\ AttemptResolves(d)
    /\ Last(outcomes'[d]) = "value"

\* error-handler.js 109-120: searchSingleDate threw
SSAttemptThrows(d) ==
    /\ CurrentAttemptIn(d, "thrown")
    /\ AttemptThrows(d)

\* the object searchSingleDate returned for a date of searchResult.results
SameDayResultOf(d) ==
    [date |-> d,
     totalPrice |-> Last(ssAttempts[d]).result[1].totalPrice,
     outbound |-> Last(ssAttempts[d]).result[1].outbound,
     return |-> Last(ssAttempts[d]).result[1].return]

\* variant: a failed date empties the returned list
StrategyResults_AllOrNothing(searchResult) ==
    IF searchResult.failureCount > 0 THEN <<>> ELSE searchResult.results

\* line 159: return searchResult.results
StrategyResults(searchResult) == searchResult.results

\* lines 133-159: withProgressiveSearch returned and the strategy returns
SSReturn ==
    /\ pc = "done"
    /\ ssReturned = <<>>
    /\ ssReturned' =
          <<[k \in 1..Len(StrategyResults(returned)) |->
                SameDayResultOf(StrategyResults(returned)[k][2])]>>
    /\ UNCHANGED <<ssAttempts, othersThanSS>>

InitSameDay ==
    /\ \E n \in 0..MaxSameDayDates, k \in 1..MaxGuardedConcurrency :
          /\ PSInitOf(n, k)
          /\ ssAttempts = [d \in 1..n |-> <<>>]
    /\ ssReturned = <<>>
    /\ sdOutboundPreferences \in {<<>>, <<DepartureOnly("early")>>}
    /\ sdReturnPreferences \in {<<>>, <<DepartureOnly("late")>>}
    /\ sdPc = "idle"
    /\ sdValidOutbound = <<>>
    /\ sdReturnJourneys = <<>>
    /\ sdValidReturn = <<>>
    /\ sdResult = <<>>
    /\ sdError = <<>>
    /\ DRIdle /\ WRIdle /\ TOIdle /\ TPIdle /\ OWIdle /\ MDIdle /\ FXIdle /\ StrategiesIdle

NextSameDay ==
    \/ StartBatch
    \/ \E d \in 1..MaxSameDayDates : SSOutboundQueryResolves(d)
    \/ \E d \in 1..MaxSameDayDates : SSOutboundQueryRejects(d)
    \/ \E d \in 1..MaxSameDayDates : SSReturnQueryResolves(d)
    \/ \E d \in 1..MaxSameDayDates : SSReturnQueryRejects(d)
    \/ \E d \in 1..MaxSameDayDates : SSAttemptResolves(d)
    \/ \E d \in 1..MaxSameDayDates : SSAttemptThrows(d)
    \/ \E d \in 1..MaxSameDayDates : RetryDelayElapses(d)
    \/ BatchCompletes
    \/ InterBatchDelayElapses
    \/ ReturnOutcome
    \/ SSReturn

SpecSameDay == InitSameDay /\ [][NextSameDay]_vars

\* every call of searchSingleDate for the date ended with a side that had
\* no valid candidate
NoValidCandidates(d) ==
    /\ Len(ssAttempts[d]) = DateMaxAttempts
    /\ \A a \in 1..Len(ssAttempts[d]) :
          /\ ssAttempts[d][a].phase = "thrown"
          /\ ssAttempts[d][a].error \in
                {<<PlainError("No suitable outbound journeys found")>>,
                 <<PlainError("No suitable return journeys found")>>}
          /\ Len(ssAttempts[d][a].validOutbound) = 0
                \/ Len(ssAttempts[d][a].validReturn) = 0

\* the dates of the objects in a returned list
DatesIn(list) == {list[k].date : k \in 1..Len(list)}

\* C17: in the same-day strategy a call for a date with no valid candidate on
\* one side produces no result; such a date ends in the failures of the run,
\* searchSameDayTrips still returns normally, and the results of the other
\* dates are all in the returned list.
C17_EmptySideIsSoftFailure ==
    /\ \A d \in Items : \A a \in 1..Len(ssAttempts[d]) :
          (/\ ssAttempts[d][a].phase # "return"
           /\ \/ Len(ssAttempts[d][a].validOutbound) = 0
              \/ Len(ssAttempts[d][a].validReturn) = 0)
             => (ssAttempts[d][a].phase = "thrown"
                 /\ ssAttempts[d][a].result = <<>>)
    /\ (pc = "done" /\ ssReturned = <<>>) => ENABLED SSReturn
    /\ ssReturned # <<>> =>
          /\ \A d \in Items :
                NoValidCandidates(d) =>
                    /\ Occurrences(returned.failures, d) = 1
                    /\ d \notin DatesIn(ssReturned[1])
          /\ \A d \in Items :
                Last(ssAttempts[d]).phase = "returned" =>
                    \E k \in 1..Len(ssReturned[1]) :
                        /\ ssReturned[1][k].date = d
                        /\ ssReturned[1][k].totalPrice =
                              Last(ssAttempts[d]).result[1].totalPrice
          /\ Len(ssReturned[1]) + Len(returned.failures) = Len(dates)

C17_Witness ==
    /\ ssReturned # <<>>
    /\ Len(dates) = 2
    /\ NoValidCandidates(1)
    /\ Len(ssAttempts[1][1].validOutbound) = 0
    /\ Len(ssAttempts[1][2].validOutbound) > 0
    /\ returned.failures = <<1>>
    /\ DatesIn(ssReturned[1]) = {2}
    /\ ssReturned[1][1].totalPrice = 8990

(***************************************************************************)
(* searchOneWayTrips.searchSingleDate (journey-search.js 179-252)          *)
(***************************************************************************)
\* line 184: searchTime.setHours(6, 0, 0, 0)
SearchHour == 6

\* line 189: afternoonTime.setHours(searchTime.getHours() + 12)
AfternoonHour == SearchHour + 12

\* variant: the last journey of a departure timestamp is the one kept
IsFirstOccurrence_LastWins(allResults, index) ==
    \A j \in (index + 1)..Len(allResults) :
        allResults[j].departure # allResults[index].departure

\* lines 212-220: index === self.findIndex(j => same departure timestamp)
IsFirstOccurrence(allResults, index) ==
    \A j \in 1..(index - 1) :
        allResults[j].departure # allResults[index].departure

\* allResults.filter((journey, index, self) => ...): the kept elements in
\* their order
RECURSIVE FilterByIndex(_, _)
FilterByIndex(allResults, index) ==
    IF index > Len(allResults) THEN <<>>
    ELSE IF IsFirstOccurrence(allResults, index)
         THEN <<allResults[index]>> \o FilterByIndex(allResults, index + 1)
         ELSE FilterByIndex(allResults, index + 1)

UniqueJourneys(allResults) == FilterByIndex(allResults, 1)

\* line 213: journey.legs[0] of a journey without legs throws
DedupThrows(allResults) ==
    \E k \in 1..Len(allResults) : HasNoLegs(allResults[k])

\* lines 225-232: priced journeys, then the optional time preference
ValidJourneys(allResults, timePreferences) ==
    LET priced == SelectSeq(UniqueJourneys(allResults), HasPrice)
    IN IF timePreferences # <<>>
       THEN FilterJourneysByTime(priced, timePreferences[1])
       ELSE priced

\* lines 234-240
NoJourneysError(timePreferences) ==
    IF timePreferences # <<>>
    THEN PlainError("No journeys found matching time preference")
    ELSE PlainError("No journeys with pricing found")

\* lines 243-251
OneWayResult(validJourneys) ==
    LET cheapestJourney == Cheapest(validJourneys)
    IN [totalPrice |-> cheapestJourney.price[1],
        journey |-> ExtractJourneyInfo(cheapestJourney)]

\* the journeys the provider is tried with: three with the same 08:00
\* departure (priced, unpriced, cheaper), a 07:00 and a 19:00 one, and one
\* without legs
OneWaySamples ==
    {Journey(1, 480, 600, <<5000>>),
     Journey(1, 480, 610, <<>>),
     Journey(2, 480, 620, <<3000>>),
     Journey(1, 420, 560, <<6000>>),
     Journey(1, 1140, 1300, <<4000>>),
     Journey(0, 0, 0, <<1000>>)}

OneWayPreferenceSamples ==
    {<<>>, <<DepartureOnly("morning")>>, <<DepartureOnly("evening")>>}

\* lines 179-199: searchSingleDate runs up to the await of the first query
OWCall ==
    /\ owPc = "start"
    /\ owPc' = "morning"
    /\ owQueries' = Append(owQueries, SearchHour)
    /\ UNCHANGED <<owPreferences, owMorning, owAfternoon, owResult, owError>>
    /\ UNCHANGED othersThanOW

\* lines 211-251: the merged list is reduced to the result, or an error is
\* thrown
OWFinish(allResults) ==
    LET validJourneys == ValidJourneys(allResults, owPreferences)
    IN IF DedupThrows(allResults)
       THEN /\ owPc' = "thrown"
            /\ owError' = <<TypeError>>
            /\ UNCHANGED owResult
       ELSE IF Len(validJourneys) = 0
       THEN /\ owPc' = "thrown"
            /\ owError' = <<NoJourneysError(owPreferences)>>
            /\ UNCHANGED owResult
       ELSE /\ owPc' = "returned"
            /\ owResult' = <<OneWayResult(validJourneys)>>
            /\ UNCHANGED owError

\* lines 194-209: the first query resolves; the second one is issued when
\* the anchor hour is before noon
OWMorningQueryResolves ==
    /\ owPc = "morning"
    /\ \E journeys \in JourneyLists(OneWaySamples) :
          /\ owMorning' = journeys
          /\ IF SearchHour < 12
             THEN /\ owPc' = "afternoon"
                  /\ owQueries' = Append(owQueries, AfternoonHour)
                  /\ UNCHANGED <<owResult, owError>>
             ELSE /\ OWFinish(journeys)
                  /\ UNCHANGED owQueries
    /\ UNCHANGED <<owPreferences, owAfternoon>>
    /\ UNCHANGED othersThanOW

\* lines 194, 203: client.journeys rejects
OWQueryRejects ==
    /\ owPc \in {"morning", "afternoon"}
    /\ owPc' = "thrown"
    /\ owError' = <<PlainError("ECONNRESET")>>
    /\ UNCHANGED <<owPreferences, owQueries, owMorning, owAfternoon, owResult>>
    /\ UNCHANGED othersThanOW

\* lines 203-251: the second query resolves and is appended to allResults
OWAfternoonQueryResolves ==
    /\ owPc = "afternoon"
    /\ \E journeys \in JourneyLists(OneWaySamples) :
          /\ owAfternoon' = journeys
          /\ OWFinish(owMorning \o journeys)
    /\ UNCHANGED <<owPreferences, owQueries, owMorning>>
    /\ UNCHANGED othersThanOW

InitOneWayDate ==
    /\ owPreferences \in OneWayPreferenceSamples
    /\ owPc = "start"
    /\ owQueries = <<>>
    /\ owMorning = <<>>
    /\ owAfternoon = <<>>
    /\ owResult = <<>>
    /\ owError = <<>>
    /\ HandlersIdle /\ TPIdle /\ SDIdle /\ SSIdle /\ MDIdle /\ FXIdle /\ StrategiesIdle

NextOneWayDate ==
    \/ OWCall
    \/ OWMorningQueryResolves
    \/ OWQueryRejects
    \/ OWAfternoonQueryResolves

SpecOneWayDate == InitOneWayDate /\ [][NextOneWayDate]_vars

\* the merged list: the answers of the two queries in the order issued
Merged == owMorning \o owAfternoon

\* the positions of the merged list that survive: first of their departure
\* timestamp, priced, and matching the time preference if there is one
Survivors ==
    {k \in 1..Len(Merged) :
        /\ \A j \in 1..(k - 1) : Merged[j].departure # Merged[k].departure
        /\ HasPrice(Merged[k])
        /\ owPreferences # <<>> =>
              JourneyMatchesTime(Merged[k], owPreferences[1])}

\* C18: the one-way strategy queries 06:00 and then 18:00, merges the two
\* answers in that order, keeps the first journey of each departure
\* timestamp, then drops unpriced journeys, then applies the time
\* preference, and returns the cheapest remaining journey (the earliest of
\* equally cheap ones); it fails the date when nothing remains.
C18_OneWayMergeAndSelect ==
    /\ owPc \in {"afternoon", "returned"} => owQueries = <<6, 18>>
    /\ owPc = "returned" =>
          /\ Survivors # {}
          /\ \E k \in Survivors :
                /\ owResult[1].totalPrice = Merged[k].price[1]
                /\ owResult[1].journey = ExtractJourneyInfo(Merged[k])
                /\ \A j \in Survivors :
                      /\ Merged[k].price[1] <= Merged[j].price[1]
                      /\ Merged[j].price[1] = Merged[k].price[1] => k <= j
    /\ (owPc = "thrown" /\ owError # <<PlainError("ECONNRESET")>>
            /\ owError # <<TypeError>>)
          => (Survivors = {} /\ owResult = <<>>)

C18_Witness ==
    /\ owPc = "returned"
    /\ owMorning = <<Journey(1, 480, 610, <<>>), Journey(1, 420, 560, <<6000>>)>>
    /\ owAfternoon = <<Journey(2, 480, 620, <<3000>>),
                       Journey(1, 1140, 1300, <<4000>>)>>
    /\ owPreferences = <<>>
    /\ owResult[1].totalPrice = 4000

(***************************************************************************)
(* searchMultiDayTrips (journey-search.js 284-326).  The nested            *)
(* searchOneWayTrips returns the objects of the dates that succeeded, in   *)
(* the order their searches completed                                      *)
(***************************************************************************)
MaxOutboundDates == 3

\* the date of the fixed return
ReturnDate == MaxOutboundDates + 1

\* the cheapest journeys a one-way date search is tried with
CheapestSamples ==
    {Journey(2, 480, 620, <<3000>>), Journey(1, 1140, 1300, <<4000>>)}

\* journey-search.js 247-251: the object searchSingleDate returns for a date
OneWayResultOn(date, journey) ==
    [date |-> date,
     totalPrice |-> OneWayResult(<<journey>>).totalPrice,
     journey |-> OneWayResult(<<journey>>).journey]

\* the lists searchOneWayTrips can return for a set of dates: at most one
\* object per date, any order
OneWayResultLists(searchedDates) ==
    UNION {{list \in [1..n -> {OneWayResultOn(d, j) :
                                  d \in searchedDates, j \in CheapestSamples}] :
               \A a, b \in 1..n : a # b => list[a].date # list[b].date} :
           n \in 0..Cardinality(searchedDates)}

\* variant: the return price is left out of the total
CombinedTotal_OutboundOnly(outbound, returnJourney) == outbound.totalPrice

\* line 316
CombinedTotal(outbound, returnJourney) ==
    outbound.totalPrice + returnJourney.totalPrice

\* lines 312-319
Combine(outboundResults, returnResults) ==
    LET returnJourney == returnResults[1]
    IN [k \in 1..Len(outboundResults) |->
           [outboundDate |-> outboundResults[k].date,
            returnDate |-> returnJourney.date,
            totalPrice |-> CombinedTotal(outboundResults[k], returnJourney),
            outbound |-> outboundResults[k].journey,
            return |-> returnJourney.journey]]

\* lines 292-295: the outbound search over the date range is started
MDCall ==
    /\ mdPc = "start"
    /\ mdPc' = "outbound"
    /\ mdSearches' = Append(mdSearches, "outbound")
    /\ UNCHANGED <<mdOutboundResults, mdReturnResults, mdReturned>>
    /\ UNCHANGED othersThanMD

\* lines 295-305: the outbound search returns; without results the function
\* returns [], otherwise the return-date search is started
MDOutboundSearchReturns ==
    /\ mdPc = "outbound"
    /\ \E n \in 0..MaxOutboundDates :
       \E list \in OneWayResultLists(1..n) :
          /\ mdOutboundResults' = list
          /\ IF Len(list) = 0
             THEN /\ mdPc' = "returned"
                  /\ mdReturned' = << <<>> >>
                  /\ UNCHANGED mdSearches
             ELSE /\ mdPc' = "return"
                  /\ mdSearches' = Append(mdSearches, "return")
                  /\ UNCHANGED mdReturned
    /\ UNCHANGED mdReturnResults
    /\ UNCHANGED othersThanMD

\* lines 305-321: the return-date search returns
MDReturnSearchReturns ==
    /\ mdPc = "return"
    /\ \E list \in OneWayResultLists({ReturnDate}) :
          /\ mdReturnResults' = list
          /\ mdReturned' = IF Len(list) = 0 THEN << <<>> >>
                           ELSE <<Combine(mdOutboundResults, list)>>
    /\ mdPc' = "returned"
    /\ UNCHANGED <<mdSearches, mdOutboundResults>>
    /\ UNCHANGED othersThanMD

InitMultiDay ==
    /\ mdPc = "start"
    /\ mdSearches = <<>>
    /\ mdOutboundResults = <<>>
    /\ mdReturnResults = <<>>
    /\ mdReturned = <<>>
    /\ HandlersIdle /\ TPIdle /\ SDIdle /\ SSIdle /\ OWIdle /\ FXIdle /\ StrategiesIdle

NextMultiDay ==
    \/ MDCall
    \/ MDOutboundSearchReturns
    \/ MDReturnSearchReturns

SpecMultiDay == InitMultiDay /\ [][NextMultiDay]_vars

\* C19: searchMultiDayTrips returns one combination per successful outbound
\* date, pairing it with the single return-date result, with totalPrice =
\* outbound price + return price; it returns an empty list when the outbound
\* search or the return-date search has no result.
C19_CrossCombination ==
    mdPc = "returned" =>
        /\ mdReturned # <<>>
        /\ (Len(mdOutboundResults) = 0 \/ Len(mdReturnResults) = 0)
              => mdReturned[1] = <<>>
        /\ (Len(mdOutboundResults) > 0 /\ Len(mdReturnResults) > 0) =>
              /\ Len(mdReturned[1]) = Len(mdOutboundResults)
              /\ \A r \in 1..Len(mdOutboundResults) :
                    Cardinality({k \in 1..Len(mdReturned[1]) :
                        mdReturned[1][k].outboundDate
                            = mdOutboundResults[r].date}) = 1
              /\ \A k \in 1..Len(mdReturned[1]) :
                    \E r \in 1..Len(mdOutboundResults) :
                        /\ mdReturned[1][k].outboundDate
                              = mdOutboundResults[r].date
                        /\ mdReturned[1][k].outbound
                              = mdOutboundResults[r].journey
                        /\ mdReturned[1][k].returnDate = mdReturnResults[1].date
                        /\ mdReturned[1][k].return = mdReturnResults[1].journey
                        /\ mdReturned[1][k].totalPrice =
                              mdOutboundResults[r].journey.price
                                  + mdReturnResults[1].journey.price

C19_Witness ==
    /\ mdPc = "returned"
    /\ Len(mdOutboundResults) = 2
    /\ Len(mdReturnResults) = 1
    /\ Len(mdReturned[1]) = 2
    /\ mdReturned[1][1].totalPrice = 7000
    /\ mdReturned[1][2].totalPrice = 6000
    /\ mdReturned[1][1].outboundDate = 3

(***************************************************************************)
(* Dates.  A Date is an instant, counted in hours since 2025-01-01T00:00Z; *)
(* a calendar date is [year, month, day].  The local-time methods          *)
(* (getDate, setDate, Intl.DateTimeFormat) depend on the host time zone,   *)
(* toISOString and the parsing of YYYY-MM-DD use UTC                       *)
(***************************************************************************)
EpochYear == 2025

IsLeapYear(y) == (y % 4 = 0 /\ y % 100 # 0) \/ y % 400 = 0

DaysInMonth(y, m) ==
    IF m \in {1, 3, 5, 7, 8, 10, 12} THEN 31
    ELSE IF m \in {4, 6, 9, 11} THEN 30
    ELSE IF IsLeapYear(y) THEN 29 ELSE 28

\* the calendar date `n` days after the first of month m of year y
RECURSIVE CivilFrom(_, _, _)
CivilFrom(y, m, n) ==
    IF n < DaysInMonth(y, m) THEN [year |-> y, month |-> m, day |-> n + 1]
    ELSE IF m = 12 THEN CivilFrom(y + 1, 1, n - DaysInMonth(y, m))
    ELSE CivilFrom(y, m + 1, n - DaysInMonth(y, m))

\* the calendar date of a day number (days since 2025-01-01)
CivilOfDay(n) == CivilFrom(EpochYear, 1, n)

\* the day number of the first of month m of year y
RECURSIVE DayOfMonthStart(_, _)
DayOfMonthStart(y, m) ==
    IF y = EpochYear /\ m = 1 THEN 0
    ELSE IF m = 1 THEN DayOfMonthStart(y - 1, 12) + DaysInMonth(y - 1, 12)
    ELSE DayOfMonthStart(y, m - 1) + DaysInMonth(y, m - 1)

\* MakeDay of ECMAScript: day-of-month values beyond the month roll over
MakeDay(y, m, dt) == DayOfMonthStart(y, m) + dt - 1

\* the instant of YYYY-MM-DDTHH:00Z
UTCInstant(y, m, d, h) == MakeDay(y, m, d) * 24 + h

TimeZones == {"UTC", "Europe/Berlin", "America/New_York"}

\* daylight saving time is in force at instant t (EU: last Sunday of March
\* 01:00Z to last Sunday of October 01:00Z; US: second Sunday of March
\* 07:00Z to first Sunday of November 06:00Z)
InDST(zone, t) ==
    IF zone = "Europe/Berlin"
    THEN \/ UTCInstant(2025, 3, 30, 1) <= t /\ t < UTCInstant(2025, 10, 26, 1)
         \/ UTCInstant(2026, 3, 29, 1) <= t /\ t < UTCInstant(2026, 10, 25, 1)
    ELSE IF zone = "America/New_York"
    THEN \/ UTCInstant(2025, 3, 9, 7) <= t /\ t < UTCInstant(2025, 11, 2, 6)
         \/ UTCInstant(2026, 3, 8, 7) <= t /\ t < UTCInstant(2026, 11, 1, 6)
    ELSE FALSE

StandardOffset(zone) ==
    IF zone = "Europe/Berlin" THEN 1
    ELSE IF zone = "America/New_York" THEN -5
    ELSE 0

\* local time = UTC + offset, in hours
Offset(zone, t) == StandardOffset(zone) + (IF InDST(zone, t) THEN 1 ELSE 0)

LocalTime(zone, t) == t + Offset(zone, t)

\* the instant of a local time: a repeated local time is the earlier
\* instant, a skipped one is read with the offset before the transition
UTCOfLocal(zone, local) ==
    LET candidates == {local - StandardOffset(zone) - 1,
                       local - StandardOffset(zone)}
        valid == {t \in candidates : LocalTime(zone, t) = local}
    IN IF valid # {} THEN CHOOSE t \in valid : \A u \in valid : t <= u
       ELSE local - StandardOffset(zone)

\* Date.prototype.getDate
GetDate(zone, t) == CivilOfDay(LocalTime(zone, t) \div 24).day

\* Date.prototype.setDate(dt): the local day of the month is replaced, the
\* local time of day kept
SetDate(zone, t, dt) ==
    LET local == LocalTime(zone, t)
        civil == CivilOfDay(local \div 24)
    IN UTCOfLocal(zone,
                  MakeDay(civil.year, civil.month, dt) * 24 + (local % 24))

\* date.toISOString().split('T')[0]: the UTC calendar date
ToISODate(t) == CivilOfDay(t \div 24)

\* new Date('YYYY-MM-DD'): midnight UTC of the date
NewDate(civil) == UTCInstant(civil.year, civil.month, civil.day, 0)

\* 2025-01-01 is a Wednesday
Weekday(dayNumber) ==
    <<"Wed", "Thu", "Fri", "Sat", "Sun", "Mon", "Tue">>[(dayNumber % 7) + 1]

\* formatDate (journey-utils.js 4-11): weekday, month, day and year of the
\* local calendar date
FormatDate(zone, t) ==
    LET dayNumber == LocalTime(zone, t) \div 24
        civil == CivilOfDay(dayNumber)
    IN [weekday |-> Weekday(dayNumber), year |-> civil.year,
        month |-> civil.month, day |-> civil.day]

(***************************************************************************)
(* searchFlexibleDurationTrips.searchSingleDeparture                       *)
(* (journey-search.js 336-411)                                             *)
(***************************************************************************)
MaxNights == 3
MaxRangeDays == 2

\* the first days of a date range tried: day numbers of 2025
StartDays == 1..364

\* lines 336-343: the dates from start while date <= end, each one made
\* from the previous by date.setDate(date.getDate() + 1)
RECURSIVE DatesFrom(_, _, _)
DatesFrom(zone, date, end) ==
    IF date <= end
    THEN <<date>> \o DatesFrom(zone,
                               SetDate(zone, date, GetDate(zone, date) + 1),
                               end)
    ELSE <<>>

\* line 357: returnDate.toISOString().split('T')[0]
ReturnDateStr(zone, returnDate) == ToISODate(returnDate)

\* the list a nested single-date searchOneWayTrips can return
NestedResults(date) ==
    {<<>>} \cup {<<OneWayResultOn(date, j)>> : j \in CheapestSamples}

\* lines 352-370: the return date is computed and the outbound search for
\* the departure date is started
FXCall ==
    /\ fxPc = "start"
    /\ fxReturnDate' = SetDate(fxZone, fxDepartureDate,
                               GetDate(fxZone, fxDepartureDate)
                                   + fxNumberOfDays)
    /\ fxSearched' = Append(fxSearched, ToISODate(fxDepartureDate))
    /\ fxPc' = "outbound"
    /\ UNCHANGED <<fxZone, fxDepartureDate, fxNumberOfDays, fxOutboundResults,
                   fxResult, fxError>>
    /\ UNCHANGED othersThanFX

\* lines 360-389: the outbound search returns; without a result the error
\* is thrown, otherwise the search for the return date is started
FXOutboundSearchReturns ==
    /\ fxPc = "outbound"
    /\ \E list \in NestedResults(ToISODate(fxDepartureDate)) :
          /\ fxOutboundResults' = list
          /\ IF Len(list) = 0
             THEN /\ fxPc' = "thrown"
                  /\ fxError' = <<PlainError("No outbound journey found")>>
                  /\ UNCHANGED fxSearched
             ELSE /\ fxPc' = "return"
                  /\ fxSearched' =
                        Append(fxSearched, ReturnDateStr(fxZone, fxReturnDate))
                  /\ UNCHANGED fxError
    /\ UNCHANGED <<fxZone, fxDepartureDate, fxNumberOfDays, fxReturnDate,
                   fxResult>>
    /\ UNCHANGED othersThanFX

\* lines 379-406: the return search returns
FXReturnSearchReturns ==
    /\ fxPc = "return"
    /\ \E list \in NestedResults(ReturnDateStr(fxZone, fxReturnDate)) :
          IF Len(list) = 0
          THEN /\ fxPc' = "thrown"
               /\ fxError' = <<PlainError("No return journey found")>>
               /\ UNCHANGED fxResult
          ELSE /\ fxPc' = "returned"
               /\ fxResult' =
                     <<[outboundDate |-> FormatDate(fxZone, fxDepartureDate),
                        returnDate |-> FormatDate(fxZone, fxReturnDate),
                        totalPrice |-> fxOutboundResults[1].totalPrice
                                           + list[1].totalPrice,
                        outbound |-> fxOutboundResults[1].journey,
                        return |-> list[1].journey,
                        duration |-> fxNumberOfDays]>>
               /\ UNCHANGED fxError
    /\ UNCHANGED <<fxZone, fxDepartureDate, fxNumberOfDays, fxReturnDate,
                   fxSearched, fxOutboundResults>>
    /\ UNCHANGED othersThanFX

InitFlexible ==
    /\ fxZone \in TimeZones
    /\ \E s \in StartDays :
          fxDepartureDate \in
              Range(DatesFrom(fxZone, NewDate(CivilOfDay(s)),
                              NewDate(CivilOfDay(s + MaxRangeDays))))
    /\ fxNumberOfDays \in 0..MaxNights
    /\ fxPc = "start"
    /\ fxReturnDate = 0
    /\ fxSearched = <<>>
    /\ fxOutboundResults = <<>>
    /\ fxResult = <<>>
    /\ fxError = <<>>
    /\ HandlersIdle /\ TPIdle /\ SDIdle /\ SSIdle /\ OWIdle /\ MDIdle /\ StrategiesIdle

NextFlexible ==
    \/ FXCall
    \/ FXOutboundSearchReturns
    \/ FXReturnSearchReturns

SpecFlexible == InitFlexible /\ [][NextFlexible]_vars

\* the calendar date of a formatted date
CalendarDate(formatted) ==
    [year |-> formatted.year, month |-> formatted.month,
     day |-> formatted.day]

\* the day number of a calendar date
DayNumber(civil) == MakeDay(civil.year, civil.month, civil.day)

\* the departure date of the item, as the result reports it
DepartureDay == DayNumber(CalendarDate(FormatDate(fxZone, fxDepartureDate)))

\* C20: for every departure date d and number of nights N, the return date
\* searched and the return date reported are both the calendar date N days
\* after d (2025-08-30 and N = 3 give 2025-09-02), so the date searched is
\* the date reported.
C20_ReturnDateIsDeparturePlusNights ==
    /\ fxPc \in {"return", "returned"} =>
          fxSearched[2] = CivilOfDay(DepartureDay + fxNumberOfDays)
    /\ fxPc = "returned" =>
          /\ CalendarDate(fxResult[1].returnDate)
                = CivilOfDay(DepartureDay + fxNumberOfDays)
          /\ CalendarDate(fxResult[1].returnDate) = fxSearched[2]


(***************************************************************************)
(* searchOneWayTrips around its executor (journey-search.js 163-281):      *)
(* what the strategy prints itself, what it hands to withProgressiveSearch *)
(* and what it returns.  The per-date search is the abstract               *)
(* searchFunction of the executor.                                         *)
(***************************************************************************)
MaxOneWayDates == 3

\* line 164
ShouldBeQuiet(silent, isNested) == silent \/ isNested

\* line 269: the configured flag is handed on as it is
OneWayUseAnimation(shouldBeQuiet, useTrainAnimations) == useTrainAnimations

\* lines 165-167: the header line
OneWayHeader(shouldBeQuiet) ==
    IF shouldBeQuiet THEN <<>> ELSE <<"Searching for one-way trips...">>

\* lines 273-278: the summary, one line for the title and one per result
OneWaySummary(shouldBeQuiet, found) ==
    IF ~shouldBeQuiet /\ Len(found) > 0
    THEN <<"Found one-way options">> \o [x \in 1..Len(found) |-> "result"]
    ELSE <<>>

\* lines 163-270 up to the await of withProgressiveSearch
OTInitOf(n, k, silent, isNested, useTrainAnimations) ==
    /\ otSilent = silent
    /\ otIsNestedSearch = isNested
    /\ otUseTrainAnimations = useTrainAnimations
    /\ otConsole = OneWayHeader(ShouldBeQuiet(silent, isNested))
    /\ otReturned = <<>>
    /\ PSInitWith(n, k, OneWayUseAnimation(ShouldBeQuiet(silent, isNested), useTrainAnimations))

\* lines 272-280: withProgressiveSearch has returned
OTReturn ==
    /\ pc = "done"
    /\ otReturned = <<>>
    /\ otConsole' = otConsole \o OneWaySummary(ShouldBeQuiet(otSilent, otIsNestedSearch), returned.results)
    /\ otReturned' = <<returned.results>>
    /\ UNCHANGED <<otSilent, otIsNestedSearch, otUseTrainAnimations>>
    /\ UNCHANGED psVars
    /\ UNCHANGED othersThanOT

InitOneWay ==
    /\ \E n \in 0..MaxOneWayDates, k \in 1..MaxGuardedConcurrency :
       \E silent \in BOOLEAN, isNested \in BOOLEAN :
       \E useTrainAnimations \in BOOLEAN :
          OTInitOf(n, k, silent, isNested, useTrainAnimations)
    /\ DRIdle /\ WRIdle /\ TOIdle /\ SearchIdle /\ CFIdle /\ FDIdle

NextOneWay ==
    \/ StartBatch
    \/ \E d \in 1..MaxOneWayDates : AttemptResolves(d)
    \/ \E d \in 1..MaxOneWayDates : AttemptThrows(d)
    \/ \E d \in 1..MaxOneWayDates : RetryDelayElapses(d)
    \/ BatchCompletes
    \/ InterBatchDelayElapses
    \/ ReturnOutcome
    \/ OTReturn

SpecOneWay == InitOneWay /\ [][NextOneWay]_vars

\* the completed counts the progressCallback was invoked with
CallbackCounts == {callbackCalls[x].completedCount : x \in 1..Len(callbackCalls)}

\* C21: the progressCallback handed to withProgressiveSearch has been invoked
\* once for every settled item, with the running completed count 1, 2, ...,
\* and its last count equals the number of items when the run has ended.
C21_CallbackPerSettledItem ==
    /\ Len(callbackCalls) >= completed
    /\ \A c \in 1..completed : c \in CallbackCounts
    /\ (pc = "done" /\ Len(dates) > 0) =>
            Last(callbackCalls).completedCount = Len(dates)

\* C22: a nested one-way search writes no progress output of its own: no
\* start, no per-item update, no batch message and no completion summary.
C22_NestedSearchIsSilent ==
    otIsNestedSearch => (progressOut = <<>> /\ otConsole = <<>>)


(***************************************************************************)
(* The two per-date searches side by side: a run is one call of either     *)
(* searchSingleDate                                                        *)
(***************************************************************************)
InitDateSearch == InitSameDayDate \/ InitOneWayDate

NextDateSearch == NextSameDayDate \/ NextOneWayDate

SpecDateSearch == InitDateSearch /\ [][NextDateSearch]_vars

AllPriced(journeys) == \A k \in 1..Len(journeys) : HasPrice(journeys[k])

SomePriced(journeys) == \E k \in 1..Len(journeys) : HasPrice(journeys[k])

\* C23: the lists handed to the cheapest-selection fold hold priced
\* journeys only, every journey of a result has a price, and a date whose
\* provider answer holds no priced journey fails instead of giving a result.
C23_UnpricedNeverSelected ==
    /\ AllPriced(sdValidOutbound) /\ AllPriced(sdValidReturn)
    /\ sdPc \in {"return", "returned"} => Len(sdValidOutbound) > 0
    /\ sdPc = "returned" =>
          /\ SomePriced(sdReturnJourneys)
          /\ sdResult[1].outbound.price > 0
          /\ sdResult[1].return.price > 0
    /\ (sdPc = "thrown" /\ ~SomePriced(sdReturnJourneys)) => sdResult = <<>>
    /\ owPc = "returned" =>
          /\ SomePriced(Merged)
          /\ owResult[1].journey.price > 0
          /\ owResult[1].totalPrice = owResult[1].journey.price
    /\ (owPc = "thrown" /\ ~SomePriced(Merged)) => owResult = <<>>

\* a same-day result for a return answer that held an unpriced journey,
\* which the price filter dropped
C23_Witness ==
    /\ sdPc = "returned"
    /\ ~AllPriced(sdReturnJourneys)
    /\ Len(sdValidReturn) < Len(sdReturnJourneys)
    /\ sdResult[1].return.price > 0


(***************************************************************************)
(* Order of the results of withProgressiveSearch                           *)
(***************************************************************************)
\* the dates whose searchWithProgress call settles with a result in this step
SettlingWithResult ==
    {d \in Items : /\ itemState[d] # "settled"
                   /\ itemState'[d] = "settled"
                   /\ Last(outcomes'[d]) = "value"}

\* the date a result belongs to
DateOf(result) == result[2]

\* C24: results is ordered by completion: a result is appended at the end of
\* the list in the step in which its item settles successfully, whatever the
\* item's place in the submitted list, and no other step changes the list;
\* the results of an earlier batch precede those of a later batch.
C24_ResultsInCompletionOrder ==
    [][/\ \A d \in SettlingWithResult : results' = Append(results, ResultOf(d))
       /\ SettlingWithResult = {} => results' = results
       /\ \A x, y \in 1..Len(results') :
             x < y => SliceOf(DateOf(results'[x])) <= SliceOf(DateOf(results'[y]))
      ]_vars

\* item 2 settled before item 1 of the same batch, item 3 in the next batch
C24_Witness ==
    /\ maxConcurrency = 2
    /\ pc = "done"
    /\ returned.results = <<ResultOf(2), ResultOf(1), ResultOf(3)>>


(***************************************************************************)
(* db-price-analyzer.js 678-783: searchFlexibleDurationTrips of the CLI.   *)
(* Every call of searchSingleDeparture saves the module-level flag         *)
(* isNestedSearch, sets it, and restores the saved value in its finally    *)
(* block; the calls of one batch run concurrently.  The nested             *)
(* searchOneWayTrips calls read the flag and never write it.               *)
(***************************************************************************)
MaxDepartureDates == 3

\* part_003 380: the default of config.preferences.useTrainAnimations
DefaultUseTrainAnimations == TRUE

\* line 771: shouldBeQuiet ? false : config.preferences.useTrainAnimations
FlexibleUseAnimation(shouldBeQuiet, useTrainAnimations) ==
    IF shouldBeQuiet THEN FALSE ELSE useTrainAnimations

\* lines 697-698 run for the dates of a slice one after the other: the first
\* unit saves the current flag, the later ones the value the earlier set
SavedState(batch, x) == IF x = 1 THEN isNestedSearch ELSE TRUE

\* the position of a date in a slice
PositionIn(batch, d) == CHOOSE x \in 1..Len(batch) : batch[x] = d

\* lines 678-772 up to the await of withProgressiveSearch
CFInitOf(n, k, silent, flag) ==
    /\ isNestedSearch = flag
    /\ previousNestedState = [d \in 1..n |-> FALSE]
    /\ cfSilent = silent
    /\ cfFlagBefore = flag
    /\ cfReturned = <<>>
    /\ PSInitWith(n, k, FlexibleUseAnimation(ShouldBeQuiet(silent, flag), DefaultUseTrainAnimations))

\* a slice is started: every unit of it runs lines 697-698 and goes on to
\* the first await of its outbound search
CFStartBatch ==
    /\ StartBatchStep
    /\ previousNestedState' = [d \in DOMAIN previousNestedState |->
            IF d \in Range(BatchSlice(i))
            THEN SavedState(BatchSlice(i), PositionIn(BatchSlice(i), d))
            ELSE previousNestedState[d]]
    /\ isNestedSearch' = TRUE
    /\ UNCHANGED <<cfSilent, cfFlagBefore, cfReturned>>
    /\ UNCHANGED othersThanCF

\* lines 742-753: the unit returns its object; finally restores the flag
CFUnitReturns(d) ==
    /\ AttemptResolvesStep(d)
    /\ Last(outcomes'[d]) = "value"
    /\ isNestedSearch' = previousNestedState[d]
    /\ UNCHANGED <<previousNestedState, cfSilent, cfFlagBefore, cfReturned>>
    /\ UNCHANGED othersThanCF

\* lines 719, 735, 750-753: the unit throws; finally restores the flag
CFUnitThrows(d) ==
    /\ AttemptThrowsStep(d)
    /\ isNestedSearch' = previousNestedState[d]
    /\ UNCHANGED <<previousNestedState, cfSilent, cfFlagBefore, cfReturned>>
    /\ UNCHANGED othersThanCF

\* withDateRetry calls the unit of the date again: lines 697-698
CFUnitRetried(d) ==
    /\ RetryDelayElapsesStep(d)
    /\ previousNestedState' = [previousNestedState EXCEPT ![d] = isNestedSearch]
    /\ isNestedSearch' = TRUE
    /\ UNCHANGED <<cfSilent, cfFlagBefore, cfReturned>>
    /\ UNCHANGED othersThanCF

\* lines 774-782
CFReturn ==
    /\ pc = "done"
    /\ cfReturned = <<>>
    /\ cfReturned' = <<returned.results>>
    /\ UNCHANGED <<isNestedSearch, previousNestedState, cfSilent, cfFlagBefore>>
    /\ UNCHANGED psVars
    /\ UNCHANGED othersThanCF

InitCliFlexible ==
    /\ \E n \in 0..MaxDepartureDates, k \in 1..MaxGuardedConcurrency :
       \E silent \in BOOLEAN, flag \in BOOLEAN : CFInitOf(n, k, silent, flag)
    /\ DRIdle /\ WRIdle /\ TOIdle /\ SearchIdle /\ OTIdle /\ FDIdle

NextCliFlexible ==
    \/ CFStartBatch
    \/ \E d \in 1..MaxDepartureDates : CFUnitReturns(d)
    \/ \E d \in 1..MaxDepartureDates : CFUnitThrows(d)
    \/ \E d \in 1..MaxDepartureDates : CFUnitRetried(d)
    \/ BatchCompletes
    \/ InterBatchDelayElapses
    \/ ReturnOutcome
    \/ CFReturn

SpecCliFlexible == InitCliFlexible /\ [][NextCliFlexible]_vars

\* C25: when searchFlexibleDurationTrips has returned, isNestedSearch has
\* the value it had before the call.
C25_FlagRestored ==
    cfReturned # <<>> => isNestedSearch = cfFlagBefore


(***************************************************************************)
(* searchOperation when the provider is unreachable                        *)
(***************************************************************************)
\* every remote query made so far was rejected
AllQueriesReject ==
    \A d \in Items : \A x \in 1..Len(outcomes[d]) : outcomes[d][x] = "throw"

\* the retry layer around the strategy has not been used: the strategy was
\* invoked at most once, nothing was waited for and nothing was thrown
OperationRetryUnused ==
    /\ wrAttempt <= 1
    /\ Len(wrOutcomes) <= 1
    /\ wrWaits = <<>>
    /\ wrLastError = <<>>
    /\ wrThrown = <<>>

UnitAt(leg, innerAttempt, phase) ==
    [leg |-> leg, innerAttempt |-> innerAttempt, phase |-> phase]

UnitIdle == UnitAt("none", 0, "idle")

\* lines 346-370 and 179-198: a unit runs up to the await of the morning
\* query of its outbound search
UnitStarted == UnitAt("outbound", 1, "morning")

\* a query is awaited in these phases
QueryPhases == {"morning", "afternoon"}

FDInitOf(n, k) ==
    /\ fdUnit = [d \in 1..n |-> UnitIdle]
    /\ fdQueriesInFlight = [d \in 1..n |-> 0]
    /\ PSInitOf(n, k)

\* a slice is started: every unit of it issues its first query
FDStartBatch ==
    /\ StartBatchStep
    /\ fdUnit' = [d \in DOMAIN fdUnit |->
            IF d \in Range(BatchSlice(i)) THEN UnitStarted ELSE fdUnit[d]]
    /\ fdQueriesInFlight' = [d \in DOMAIN fdQueriesInFlight |->
            IF d \in Range(BatchSlice(i)) THEN fdQueriesInFlight[d] + 1
            ELSE fdQueriesInFlight[d]]
    /\ UNCHANGED othersThanFD

\* lines 194-208: the morning query resolves and the afternoon query is
\* issued
FDMorningQueryResolves(d) ==
    /\ d \in DOMAIN fdUnit
    /\ fdUnit[d].phase = "morning"
    /\ fdUnit' = [fdUnit EXCEPT ![d].phase = "afternoon"]
    /\ fdQueriesInFlight' = [fdQueriesInFlight EXCEPT ![d] = (@ - 1) + 1]
    /\ UNCHANGED psVars
    /\ UNCHANGED othersThanFD

\* a query rejects, or the afternoon query resolves and nothing valid is
\* left (lines 234-240): the nested withDateRetry waits before its second
\* attempt
FDNestedAttemptFails(d) ==
    /\ d \in DOMAIN fdUnit
    /\ fdUnit[d].phase \in QueryPhases
    /\ ~DateRetryExhausted(fdUnit[d].innerAttempt, DateMaxAttempts)
    /\ fdUnit' = [fdUnit EXCEPT ![d].phase = "retryDelay"]
    /\ fdQueriesInFlight' = [fdQueriesInFlight EXCEPT ![d] = @ - 1]
    /\ UNCHANGED psVars
    /\ UNCHANGED othersThanFD

\* the retry delay of the nested withDateRetry elapses: searchSingleDate is
\* called again and issues its morning query
FDNestedRetry(d) ==
    /\ d \in DOMAIN fdUnit
    /\ fdUnit[d].phase = "retryDelay"
    /\ fdUnit' = [fdUnit EXCEPT ![d].phase = "morning",
                                ![d].innerAttempt = @ + 1]
    /\ fdQueriesInFlight' = [fdQueriesInFlight EXCEPT ![d] = @ + 1]
    /\ UNCHANGED psVars
    /\ UNCHANGED othersThanFD

\* the last attempt of a nested search fails: searchOneWayTrips returns []
\* and the unit throws (lines 372-374, 391-393)
FDLegFails(d) ==
    /\ d \in DOMAIN fdUnit
    /\ fdUnit[d].phase \in QueryPhases
    /\ DateRetryExhausted(fdUnit[d].innerAttempt, DateMaxAttempts)
    /\ AttemptThrowsStep(d)
    /\ fdUnit' = [fdUnit EXCEPT ![d].phase = "thrown"]
    /\ fdQueriesInFlight' = [fdQueriesInFlight EXCEPT ![d] = @ - 1]
    /\ UNCHANGED othersThanFD

\* lines 372-389: the outbound search returned a result; the return search
\* is started and issues its morning query
FDOutboundFound(d) ==
    /\ d \in DOMAIN fdUnit
    /\ fdUnit[d].leg = "outbound"
    /\ fdUnit[d].phase = "afternoon"
    /\ fdUnit' = [fdUnit EXCEPT ![d] = UnitAt("return", 1, "morning")]
    /\ fdQueriesInFlight' = [fdQueriesInFlight EXCEPT ![d] = (@ - 1) + 1]
    /\ UNCHANGED psVars
    /\ UNCHANGED othersThanFD

\* lines 391-406: the return search returned a result; the unit returns
FDReturnFound(d) ==
    /\ d \in DOMAIN fdUnit
    /\ fdUnit[d].leg = "return"
    /\ fdUnit[d].phase = "afternoon"
    /\ AttemptResolvesStep(d)
    /\ Last(outcomes'[d]) = "value"
    /\ fdUnit' = [fdUnit EXCEPT ![d].phase = "returned"]
    /\ fdQueriesInFlight' = [fdQueriesInFlight EXCEPT ![d] = @ - 1]
    /\ UNCHANGED othersThanFD

\* the outer withDateRetry calls the unit of the date again
FDUnitRetried(d) ==
    /\ RetryDelayElapsesStep(d)
    /\ fdUnit' = [fdUnit EXCEPT ![d] = UnitStarted]
    /\ fdQueriesInFlight' = [fdQueriesInFlight EXCEPT ![d] = @ + 1]
    /\ UNCHANGED othersThanFD

InitFlexibleQueries ==
    /\ \E n \in 0..MaxDepartureDates, k \in 1..MaxGuardedConcurrency :
          FDInitOf(n, k)
    /\ DRIdle /\ WRIdle /\ TOIdle /\ SearchIdle /\ OTIdle /\ CFIdle

NextFlexibleQueries ==
    \/ FDStartBatch
    \/ \E d \in 1..MaxDepartureDates : FDMorningQueryResolves(d)
    \/ \E d \in 1..MaxDepartureDates : FDNestedAttemptFails(d)
    \/ \E d \in 1..MaxDepartureDates : FDNestedRetry(d)
    \/ \E d \in 1..MaxDepartureDates : FDLegFails(d)
    \/ \E d \in 1..MaxDepartureDates : FDOutboundFound(d)
    \/ \E d \in 1..MaxDepartureDates : FDReturnFound(d)
    \/ \E d \in 1..MaxDepartureDates : FDUnitRetried(d)
    \/ BatchCompletes
    \/ InterBatchDelayElapses
    \/ ReturnOutcome

SpecFlexibleQueries == InitFlexibleQueries /\ [][NextFlexibleQueries]_vars

\* the queries outstanding over the dates 1..d
RECURSIVE QueriesOutstanding(_)
QueriesOutstanding(d) ==
    IF d = 0 THEN 0 ELSE fdQueriesInFlight[d] + QueriesOutstanding(d - 1)

\* C27: over the outer executor and all nested one-way searches, at most
\* maxConcurrency remote queries are outstanding at any moment, and every
\* unit has at most one query in flight, none unless it is running.
C27_QueriesWithinConcurrency ==
    /\ QueriesOutstanding(Len(dates)) <= maxConcurrency
    /\ \A d \in Items :
          /\ fdQueriesInFlight[d] \in {0, 1}
          /\ fdQueriesInFlight[d] = 1 =>
                (itemState[d] = "running" /\ fdUnit[d].phase \in QueryPhases)

\* a batch of two of three dates in which one unit awaits a query of its
\* return search while the other awaits a query of the second attempt of
\* its outbound search
C27_Witness ==
    /\ maxConcurrency = 2
    /\ Len(dates) = 3
    /\ Len(batches) = 1
    /\ QueriesOutstanding(Len(dates)) = 2
    /\ \E d \in Items : fdUnit[d] = UnitAt("return", 1, "afternoon")
    /\ \E d \in Items : fdUnit[d] = UnitAt("outbound", 2, "morning")


(***************************************************************************)
(* Termination of withProgressiveSearch.  Every attempt of a worker        *)
(* settles, every timer fires and the event loop runs every continuation   *)
(* that is ready: a step that is possible is eventually taken.             *)
(***************************************************************************)
MaxLiveItems == 3
MaxLiveConcurrency == 2

InitLive ==
    /\ \E n \in 0..MaxLiveItems, k \in 1..MaxLiveConcurrency : PSInitOf(n, k)
    /\ DRIdle /\ WRIdle /\ TOIdle /\ SearchIdle /\ StrategiesIdle

SpecLive == InitLive /\ [][Next]_vars /\ WF_vars(Next)

\* C28: the run eventually returns, having launched exactly ceil(n/k)
\* batches; no item's worker is ever attempted more than 2 times; and every
\* time control comes back to the loop header the index has grown.
C28_Terminates ==
    /\ <>(pc = "done" /\ returned # NoReturn /\ Len(batches) = NumBatches)
    /\ [](\A d \in Items : calls[d] <= 2)
    /\ [][/\ i' >= i
          /\ (pc # "loop" /\ pc' = "loop") => i' > i]_vars

\* three dates one at a time: three batches, one date attempted twice
C28_Witness ==
    /\ pc = "done"
    /\ Len(dates) = 3
    /\ maxConcurrency = 1
    /\ Len(batches) = 3
    /\ \E d \in Items : calls[d] = 2


(***************************************************************************)
(* The one-way result against everything the provider returned             *)
(***************************************************************************)
\* the positions of the merged answers holding a priced journey that
\* satisfies the time preference
Qualifying ==
    {k \in 1..Len(Merged) :
        /\ HasPrice(Merged[k])
        /\ owPreferences # <<>> =>
              JourneyMatchesTime(Merged[k], owPreferences[1])}

\* C29: the price reported for the date is at most the price of every
\* priced journey of either answer that satisfies the time preference.
C29_CheapestQualifyingReported ==
    owPc = "returned" =>
        \A k \in Qualifying : owResult[1].totalPrice <= Merged[k].price[1]


(***************************************************************************)
(* Order of the two queries of a same-day date                             *)
(***************************************************************************)
\* the errors of a call that ended before a return query was issued
OutboundErrors ==
    {<<PlainError("No suitable outbound journeys found")>>,
     <<PlainError("ECONNRESET")>>}

\* C30: in every call of searchSingleDate the return query is issued only
\* after the outbound query resolved with at least one valid candidate; a
\* call whose outbound side is empty fails with nothing of a return query; a
\* call that has just begun, the retry included, awaits the outbound query
\* and no return query; only the running call of a date awaits a query.
C30_QueriesSequentialAndConditional ==
    \A d \in Items :
        /\ Len(ssAttempts[d]) <= calls[d]
        /\ \A a \in 1..Len(ssAttempts[d]) :
              /\ ssAttempts[d][a].phase \in {"return", "returned"} =>
                    Len(ssAttempts[d][a].validOutbound) > 0
              /\ Len(ssAttempts[d][a].validOutbound) = 0 =>
                    /\ ssAttempts[d][a].phase = "thrown"
                    /\ ssAttempts[d][a].validReturn = <<>>
                    /\ ssAttempts[d][a].error \in OutboundErrors
              /\ ssAttempts[d][a].phase = "return" =>
                    /\ a = Len(ssAttempts[d])
                    /\ itemState[d] = "running"
        /\ AwaitingOutbound(d) =>
              /\ ENABLED SSOutboundQueryResolves(d)
              /\ ~ENABLED SSReturnQueryResolves(d)
        /\ ENABLED SSReturnQueryResolves(d) =>
              /\ ~ENABLED SSOutboundQueryResolves(d)
              /\ Len(Last(ssAttempts[d]).validOutbound) > 0

\* the first call for a date failed on an empty outbound side, and the
\* retry has resolved its outbound query and awaits its return query
C30_Witness ==
    \E d \in Items :
        /\ Len(ssAttempts[d]) = 2
        /\ ssAttempts[d][1].error =
              <<PlainError("No suitable outbound journeys found")>>
        /\ ssAttempts[d][1].validReturn = <<>>
        /\ ssAttempts[d][2].phase = "return"
        /\ calls[d] = 2

====
